---- MODULE Spec2Model ----
(***************************************************************************)
(* The event processing pipeline of the lifecycle-manager service          *)
(* (pkg/service/server.go): the worker goroutines started by Manager.Start *)
(* (newWorker -> Process -> AddEvent / handleEvent / CompleteEvent, or     *)
(* FailEvent / RejectEvent), the work queue they share, and the            *)
(* drain / load-balancer deregistration stage with its waiter goroutines.  *)
(* Manager.Start with its crash-resume scan, the poller goroutine and the   *)
(* sendHeartbeat goroutine of an event are modelled as well, each checked  *)
(* under a specification of its own.                                       *)
(*                                                                         *)
(* One worker goroutine is modelled per element of Workers; the event a    *)
(* worker builds is the object *LifecycleEvent it owns, so a pointer to an *)
(* event is the worker's index.  A step of the model is one statement (or  *)
(* one run of statements touching only goroutine-local state) of the Go    *)
(* code; statements that read or write memory shared between goroutines    *)
(* are separate steps, so that every interleaving the Go scheduler can     *)
(* produce is a behaviour of the model.                                    *)
(***************************************************************************)
EXTENDS Integers, Sequences, FiniteSets, TLC

(***************************************************************************)
(* Bounds of the model.                                                    *)
(***************************************************************************)
\* number of worker goroutines (messages handed to newWorker)
NumWorkers == 2
\* largest number of classic balancers, and of target groups, the instance
\* can be an active member of
MaxPools == 1

Workers == 1 .. NumWorkers

(***************************************************************************)
(* Queue messages.  Body is the notification; json tells whether it parses *)
(* as JSON.  MsgA1 and MsgA2 carry the same lifecycle hook                 *)
(* (a crash-resumed copy has the receipt handle of the original, a         *)
(* re-delivery has a new one); MsgB is another instance.                   *)
(***************************************************************************)
TerminationEventName == "autoscaling:EC2_INSTANCE_TERMINATING"
ContinueAction == "CONTINUE"
AbandonAction == "ABANDON"

Body(req, inst, transition) ==
    [json |-> TRUE, RequestID |-> req, EC2InstanceID |-> inst,
     LifecycleTransition |-> transition]
\* a body that is no JSON document
Garbage == [json |-> FALSE, RequestID |-> "", EC2InstanceID |-> "", LifecycleTransition |-> ""]

MsgA1 == [Body |-> Body("r1", "i1", TerminationEventName), ReceiptHandle |-> "h1"]
MsgA2 == [Body |-> Body("r1", "i1", TerminationEventName), ReceiptHandle |-> "h2"]
MsgB == [Body |-> Body("r2", "i2", TerminationEventName), ReceiptHandle |-> "h3"]
MsgGarbage == [Body |-> Garbage, ReceiptHandle |-> "h4"]
MsgNoInstance == [Body |-> Body("r3", "", TerminationEventName), ReceiptHandle |-> "h5"]
MsgLaunching ==
    [Body |-> Body("r4", "i4", "autoscaling:EC2_INSTANCE_LAUNCHING"), ReceiptHandle |-> "h6"]

Messages == {MsgA1, MsgA2, MsgB, MsgGarbage, MsgNoInstance, MsgLaunching}

\* no message: the goroutine is never started
NoMessage == [Body |-> Garbage, ReceiptHandle |-> ""]

\* heartbeat timeouts DescribeLifecycleHooks can report for the hook
HookTimeouts == {3600}

\* the timeouts of a hook in general: absent (read as 0), 1 second, 40 minutes, one hour
AnyHookTimeouts == {0, 1, 2400, 3600}

(***************************************************************************)
(* Error values.  "nil" is no error; the named codes are the awserr codes  *)
(* the code tests for; "other" is any other error.                         *)
(***************************************************************************)
NoError == "nil"
ErrCodeAccessPointNotFoundException == "LoadBalancerNotFound"
ErrCodeInvalidEndPointException == "InvalidInstance"
ErrCodeTargetGroupNotFoundException == "TargetGroupNotFound"
ErrCodeInvalidTargetException == "InvalidTarget"
OtherError == "other"

\* what DeregisterInstancesFromLoadBalancer / DeregisterTargets can answer
DeregisterInstanceResults ==
    {NoError, ErrCodeAccessPointNotFoundException, ErrCodeInvalidEndPointException, OtherError}
DeregisterTargetResults ==
    {NoError, ErrCodeTargetGroupNotFoundException, ErrCodeInvalidTargetException, OtherError}
\* what the waiters can answer
WaitInstanceResults == {NoError, ErrCodeAccessPointNotFoundException, OtherError}
WaitTargetResults == {NoError, ErrCodeTargetGroupNotFoundException, OtherError}

VARIABLES
    WithDeregister,   \* ManagerContext.WithDeregister
    message,          \* message[w]: the *sqs.Message handed to worker w
    pc,               \* pc[w]: the statement worker w executes next
    event,            \* event[w]: the LifecycleEvent worker w owns
    workQueue,        \* Manager.workQueue: sequence of event pointers
    completedEvents,  \* Manager.completedEvents
    failedEvents,     \* Manager.failedEvents
    rejectedEvents,   \* Manager.rejectedEvents
    local,            \* local[w]: locals of the worker's call stack
    lb,               \* lb[w]: locals of drainLoadbalancerTarget, shared with its goroutines
    calls,            \* calls[w]: calls made for event w to the queue and scaling-group services
    hb,               \* hb[w]: the sendHeartbeat goroutine of event w
    avarageLatency,   \* Manager.avarageLatency
    latencies,        \* the latencies of the completions so far, in the order they were averaged
    nodes,            \* nodes[n]: the in-progress annotation of cluster node n
    manager,          \* the goroutine of Manager.Start
    poller,           \* the goroutine of Manager.newPoller, and the queue it reads
    metrics           \* the gauges of the instances in the drain and in the deregistration

vars == <<WithDeregister, message, pc, event, workQueue, completedEvents, failedEvents,
          rejectedEvents, local, lb, calls, hb, avarageLatency, latencies,
          nodes, manager, poller, metrics>>

\* the variables of Manager.Start and Manager.newPoller, and the gauges
service == <<nodes, manager, poller, metrics>>

\* LifecycleEvent{}: the zero value of the struct
ZeroEvent ==
    [RequestID |-> "", EC2InstanceID |-> "", LifecycleTransition |-> "",
     receiptHandle |-> "", queueURL |-> "", heartbeatInterval |-> 0,
     referencedNode |-> "", startTime |-> 0, drainCompleted |-> FALSE,
     deregisterCompleted |-> FALSE, eventCompleted |-> FALSE, message |-> ""]

ZeroLocal ==
    [counter |-> 0,        \* value read by a non-atomic counter++
     err |-> NoError,      \* err of handleEvent, returned to Process and newWorker
     processErr |-> NoError, \* what Process returned to newWorker
     abandon |-> FALSE,    \* the abandon argument of FailEvent
     range |-> << >>,      \* the slice CompleteEvent ranges over
     i |-> 0,              \* index of that range loop
     newQueue |-> << >>,   \* newQueue of CompleteEvent
     t |-> 0,              \* t of CompleteEvent: seconds since startTime
     avg |-> 0]            \* value of mgr.avarageLatency read by CompleteEvent

ZeroLB ==
    [activeLoadBalancers |-> 0, activeTargetGroups |-> 0,
     i |-> 0,
     deregisteredLoadBalancers |-> 0, deregisteredTargetGroups |-> 0,
     skipped |-> 0, failed |-> 0,
     capacity |-> 0, errChannel |-> << >>,
     wg |-> 0, closer |-> FALSE, finished |-> FALSE,
     err |-> NoError,
     waiters |-> << >>, waitFailed |-> FALSE,
     undrained |-> FALSE,  \* some wait call returned an error
     result |-> "none"]

\* the sendHeartbeat goroutine before handleEvent starts it
ZeroHB ==
    [at |-> "none",               \* none, start, sleep, extend, done, panic
     iterationCount |-> 0,
     recommendedInterval |-> 0,
     maxIterations |-> 0,
     calls |-> 0,                 \* calls of RecordLifecycleActionHeartbeat
     exit |-> "none",             \* why the loop returned: completed, threshold, error
     \* HeartbeatTimeout of the event's lifecycle hook in the scaling group
     hookTimeout |-> CHOOSE timeout \in HookTimeouts : TRUE]

\* the cluster nodes that can carry the in-progress annotation
Nodes == 1 .. NumWorkers

\* the value of the annotation: empty is the empty string, json tells whether
\* the text is the JSON document of a message, whose fields follow
NoAnnotation == [empty |-> TRUE, json |-> FALSE, Body |-> Garbage, ReceiptHandle |-> ""]
\* a text that is neither empty nor the document of a message
BadAnnotation == [empty |-> FALSE, json |-> FALSE, Body |-> Garbage, ReceiptHandle |-> ""]

\* serializeMessage: the text handleEvent stores in the annotation
serializeMessage(m) ==
    [empty |-> FALSE, json |-> TRUE, Body |-> m.Body, ReceiptHandle |-> m.ReceiptHandle]

\* deserializeMessage: the message of the document, or an error with an empty message
deserializeMessage(s) ==
    IF s.json
    THEN [message |-> [Body |-> s.Body, ReceiptHandle |-> s.ReceiptHandle], err |-> NoError]
    ELSE [message |-> [Body |-> Garbage, ReceiptHandle |-> ""], err |-> OtherError]

\* the cluster node of an instance (getNodeByInstance names the node after it)
NodeOf(instance) == IF instance = "i1" THEN 1 ELSE 2

\* annotateNode: the annotations after the in-progress annotation of the node
\* was overwritten with the value
annotateNode(node, value) == [nodes EXCEPT ![NodeOf(node)] = value]

\* the gauges when the service starts
ZeroMetrics == [DrainingInstancesCount |-> 0, DeregisteringInstancesCount |-> 0]

\* metrics.IncGauge and metrics.DecGauge: the gauge goes up or down by one
IncGauge(m, gauge) == [m EXCEPT ![gauge] = @ + 1]
DecGauge(m, gauge) == [m EXCEPT ![gauge] = @ - 1]

\* Manager.Start before its first statement
ZeroManager ==
    [at |-> "none",               \* none, getNodesByAnnotationKey, resume, eventStream, newWorker
     inProgressEvents |-> {},     \* the nodes of the map the range loop has still to visit
     message |-> NoMessage,       \* the message taken from the event channel
     spawned |-> << >>,           \* the goroutines started: where the message came from
     scanned |-> NoError,         \* what getNodesByAnnotationKey returned
     \* the run of the service before this one: whether there was one, the
     \* message it handled and whether FailEvent had returned for it
     earlier |-> [run |-> FALSE, message |-> NoMessage, failed |-> FALSE]]

\* Manager.newPoller before its first statement
ZeroPoller ==
    [at |-> "none",               \* none, ReceiveMessage, Sleep, send
     queue |-> {},                \* the messages of the queue not received yet
     output |-> << >>,            \* output.Messages, what is left to send
     received |-> << >>,          \* the messages ReceiveMessage returned, in order
     failedAt |-> {}]             \* how many messages had been received at each error

ZeroCalls ==
    [DeleteMessage |-> 0, Continue |-> 0, Abandon |-> 0,
     Process |-> 0, CompleteEvent |-> 0, FailEvent |-> 0, RejectEvent |-> 0,
     \* calls of the setters of the event's flags with the argument true
     SetDrainCompleted |-> 0, SetDeregisterCompleted |-> 0, SetEventCompleted |-> 0]

\* the state after New(auth, ctx), with the messages the workers will be started with
Start(deregister, messages) ==
    /\ WithDeregister = deregister
    /\ message = messages
    /\ pc = [w \in Workers |-> IF messages[w] = NoMessage THEN "done" ELSE "newWorker"]
    /\ event = [w \in Workers |-> ZeroEvent]
    /\ workQueue = << >>
    /\ completedEvents = 0
    /\ failedEvents = 0
    /\ rejectedEvents = 0
    /\ local = [w \in Workers |-> ZeroLocal]
    /\ lb = [w \in Workers |-> ZeroLB]
    /\ calls = [w \in Workers |-> ZeroCalls]
    /\ hb = [w \in Workers |-> ZeroHB]
    /\ avarageLatency = 0
    /\ latencies = << >>
    /\ nodes = [n \in Nodes |-> NoAnnotation]
    /\ metrics = ZeroMetrics
    /\ manager = ZeroManager
    /\ poller = ZeroPoller

\* what the poller hands to the workers: every delivery of the queue has a
\* receipt handle of its own
Deliveries ==
    {messages \in [Workers -> Messages] :
        \A v, w \in Workers : v # w => messages[v].ReceiptHandle # messages[w].ReceiptHandle}

\* every worker is started with a message, with or without deregistration
Init ==
    \E deregister \in BOOLEAN, messages \in Deliveries :
        Start(deregister, messages)

\* one message arrives: the first worker is started and no other
InitOne ==
    \E deregister \in BOOLEAN, m \in Messages :
        Start(deregister, [v \in Workers |-> IF v = 1 THEN m ELSE NoMessage])

\* every worker is started with a message, and the service runs without deregistration
InitNoDeregister ==
    \E messages \in Deliveries : Start(FALSE, messages)

(***************************************************************************)
(* Helpers.                                                                *)
(***************************************************************************)
Set(f, w, v) == [f EXCEPT ![w] = v]

\* reflect.DeepEqual(a, b) of two *LifecycleEvent: equal pointers, or pointees
\* equal field by field
DeepEqual(a, b) == a = b \/ event[a] = event[b]

\* reflect.DeepEqual(event, LifecycleEvent{}) as FailEvent and RejectEvent call it:
\* the first argument is a *LifecycleEvent and the second a LifecycleEvent, and
\* values of different types are never deeply equal
DeepEqualZeroValue(w) == FALSE

\* readMessage: the event parsed from the message body, with its receipt handle
readMessage(m) ==
    IF ~m.Body.json
    THEN [ev |-> ZeroEvent, err |-> OtherError]
    ELSE [ev |-> [ZeroEvent EXCEPT !.RequestID = m.Body.RequestID,
                                   !.EC2InstanceID = m.Body.EC2InstanceID,
                                   !.LifecycleTransition = m.Body.LifecycleTransition,
                                   !.receiptHandle = m.ReceiptHandle],
          err |-> NoError]

\* LifecycleEvent.IsValid
IsValid(e) ==
    /\ e.LifecycleTransition = TerminationEventName
    /\ e.RequestID # ""
    /\ e.EC2InstanceID # ""

\* LifecycleEvent.IsAlreadyExist(queue)
IsAlreadyExist(e, queue) ==
    \E i \in 1 .. Len(queue) :
        /\ event[queue[i]].RequestID = e.RequestID
        /\ event[queue[i]].EC2InstanceID = e.EC2InstanceID

\* time.Now() in AddEvent.  Only the order of the readings matters: the clock
\* never runs backwards, so a new reading is the latest startTime stamped so
\* far (the clock has not advanced since) or a later one; the first reading is 1
LatestStart == CHOOSE t \in {event[w].startTime : w \in Workers} :
                   \A w \in Workers : event[w].startTime <= t
Now == {LatestStart, LatestStart + 1} \ {0}

(***************************************************************************)
(* newWorker, up to the call of Process.                                   *)
(***************************************************************************)
\* newWorker as it would be without the test of IsValid at line 301
newWorker_readMessage_NoIsValid(w) ==
    /\ pc[w] = "newWorker"
    /\ LET r == readMessage(message[w])
           e == [r.ev EXCEPT !.queueURL = "url"]
       IN  IF r.err # NoError
           THEN /\ event' = Set(event, w, r.ev)
                /\ pc' = Set(pc, w, "RejectEvent")
           ELSE /\ event' = Set(event, w, e)
                /\ pc' = Set(pc, w, "IsAlreadyExist")
    /\ UNCHANGED <<hb, avarageLatency, latencies, service, WithDeregister, message, workQueue,
                   completedEvents, failedEvents, rejectedEvents, local, lb, calls>>

\* lines 293-305: readMessage, SetQueueURL, IsValid
newWorker_readMessage(w) ==
    /\ pc[w] = "newWorker"
    /\ LET r == readMessage(message[w])
           e == [r.ev EXCEPT !.queueURL = "url"]
       IN  IF r.err # NoError
           THEN /\ event' = Set(event, w, r.ev)
                /\ pc' = Set(pc, w, "RejectEvent")
           ELSE /\ event' = Set(event, w, e)
                /\ pc' = Set(pc, w, IF IsValid(e) THEN "IsAlreadyExist" ELSE "RejectEvent")
    /\ UNCHANGED <<hb, avarageLatency, latencies, service, WithDeregister, message, workQueue, completedEvents, failedEvents,
                   rejectedEvents, local, lb, calls>>

\* lines 307-311: the duplicate check reads mgr.workQueue without the mutex
newWorker_IsAlreadyExist(w) ==
    /\ pc[w] = "IsAlreadyExist"
    /\ pc' = Set(pc, w, IF IsAlreadyExist(event[w], workQueue)
                        THEN "RejectEvent" ELSE "getHookHeartbeatInterval")
    /\ UNCHANGED <<hb, avarageLatency, latencies, service, WithDeregister, message, event, workQueue, completedEvents,
                   failedEvents, rejectedEvents, local, lb, calls>>

\* lines 313-319: getHookHeartbeatInterval fails, or returns the hook's timeout
\* (aws.Int64Value gives 0 for a timeout that is absent)
newWorker_getHookHeartbeatInterval(w) ==
    /\ pc[w] = "getHookHeartbeatInterval"
    /\ \E err \in {NoError, OtherError}, timeout \in {hb[w].hookTimeout} :
        IF err # NoError
        THEN /\ pc' = Set(pc, w, "RejectEvent")
             /\ event' = event
        ELSE /\ pc' = Set(pc, w, "getNodeByInstance")
             /\ event' = Set(event, w, [event[w] EXCEPT !.heartbeatInterval = timeout])
    /\ UNCHANGED <<hb, avarageLatency, latencies, service, WithDeregister, message, workQueue, completedEvents, failedEvents,
                   rejectedEvents, local, lb, calls>>

\* lines 321-337: getNodeByInstance, SetReferencedNode, SetMessage
newWorker_getNodeByInstance(w) ==
    /\ pc[w] = "getNodeByInstance"
    /\ \E exists \in BOOLEAN :
        IF ~exists
        THEN /\ pc' = Set(pc, w, "RejectEvent")
             /\ event' = event
        ELSE /\ pc' = Set(pc, w, "Process")
             /\ event' = Set(event, w,
                    [event[w] EXCEPT !.referencedNode = event[w].EC2InstanceID,
                                     !.message = message[w].ReceiptHandle])
    /\ UNCHANGED <<hb, avarageLatency, latencies, service, WithDeregister, message, workQueue, completedEvents, failedEvents,
                   rejectedEvents, local, lb, calls>>

(***************************************************************************)
(* RejectEvent.  mgr.rejectedEvents++ is a read and a write of a field     *)
(* that no mutex guards.                                                   *)
(***************************************************************************)
\* lines 222-231
RejectEvent_read(w) ==
    /\ pc[w] = "RejectEvent"
    /\ local' = Set(local, w, [local[w] EXCEPT !.counter = rejectedEvents])
    /\ calls' = Set(calls, w, [calls[w] EXCEPT !.RejectEvent = @ + 1])
    /\ pc' = Set(pc, w, "RejectEvent_write")
    /\ UNCHANGED <<hb, avarageLatency, latencies, service, WithDeregister, message, event, workQueue, completedEvents,
                   failedEvents, rejectedEvents, lb>>

\* lines 231-243
RejectEvent_write(w) ==
    /\ pc[w] = "RejectEvent_write"
    /\ rejectedEvents' = local[w].counter + 1
    /\ calls' = Set(calls, w,
            [calls[w] EXCEPT !.DeleteMessage = IF DeepEqualZeroValue(w) THEN @ ELSE @ + 1])
    /\ pc' = Set(pc, w, "done")
    /\ UNCHANGED <<hb, avarageLatency, latencies, service, WithDeregister, message, event, workQueue, completedEvents,
                   failedEvents, local, lb>>

(***************************************************************************)
(* Process and AddEvent.                                                   *)
(***************************************************************************)
\* lines 95-98 and 114-124: under the queue mutex
AddEvent(w) ==
    /\ pc[w] = "Process"
    /\ \E t \in Now :
        event' = Set(event, w, [event[w] EXCEPT !.startTime = t])
    /\ workQueue' = Append(workQueue, w)
    /\ calls' = Set(calls, w, [calls[w] EXCEPT !.Process = @ + 1])
    /\ pc' = Set(pc, w, "handleEvent")
    /\ UNCHANGED <<hb, avarageLatency, latencies, service, WithDeregister, message, completedEvents, failedEvents,
                   rejectedEvents, local, lb>>

\* lines 693-706: the deregistering gauge goes down, once more when the
\* deregistration failed; handleEvent returns the error of the deregistration,
\* and clears the annotation of the node when there is none
handleEvent_return(w) ==
    /\ metrics' =
            LET failed == IF local[w].err # NoError
                          THEN DecGauge(metrics, "DeregisteringInstancesCount")
                          ELSE metrics
            IN  DecGauge(failed, "DeregisteringInstancesCount")
    /\ nodes' = IF local[w].err # NoError THEN nodes
                ELSE annotateNode(event[w].referencedNode, NoAnnotation)

\* Process as it would be without the early return of line 105: it goes on
\* to CompleteEvent and still returns the error of handleEvent
Process_handleEvent_NoReturn(w) ==
    /\ pc[w] = "Process_handleEvent"
    /\ handleEvent_return(w)
    /\ local' = Set(local, w, [local[w] EXCEPT !.processErr = local[w].err])
    /\ pc' = Set(pc, w, "CompleteEvent")
    /\ UNCHANGED <<hb, avarageLatency, latencies, manager, poller, WithDeregister, message, event,
                   workQueue, completedEvents, failedEvents, rejectedEvents, lb, calls>>

\* lines 103-109: Process after handleEvent returned
Process_handleEvent(w) ==
    /\ pc[w] = "Process_handleEvent"
    /\ handleEvent_return(w)
    /\ IF local[w].err # NoError
       THEN /\ local' = Set(local, w, [local[w] EXCEPT !.processErr = local[w].err])
            /\ pc' = Set(pc, w, "newWorker_Process")
       ELSE /\ local' = local
            /\ pc' = Set(pc, w, "CompleteEvent")
    /\ UNCHANGED <<hb, avarageLatency, latencies, manager, poller, WithDeregister, message, event,
                   workQueue, completedEvents, failedEvents, rejectedEvents, lb, calls>>

\* lines 339-343: newWorker after Process returned
newWorker_Process(w) ==
    /\ pc[w] = "newWorker_Process"
    /\ IF local[w].processErr # NoError
       THEN /\ local' = Set(local, w, [local[w] EXCEPT !.abandon = TRUE])
            /\ pc' = Set(pc, w, "FailEvent")
       ELSE /\ local' = local
            /\ pc' = Set(pc, w, "done")
    /\ UNCHANGED <<hb, avarageLatency, latencies, service, WithDeregister, message, event, workQueue, completedEvents,
                   failedEvents, rejectedEvents, lb, calls>>


(***************************************************************************)
(* handleEvent and the node drain.                                         *)
(***************************************************************************)
\* handleEvent as it would be if it went to the deregistration without the
\* node drain
handleEvent_NoDrain(w) ==
    /\ pc[w] = "handleEvent"
    /\ hb' = Set(hb, w, [hb[w] EXCEPT !.at = "start"])
    /\ nodes' = annotateNode(event[w].referencedNode, serializeMessage(message[w]))
    /\ metrics' = IncGauge(metrics, "DeregisteringInstancesCount")
    /\ pc' = Set(pc, w, "drainLoadbalancerTarget")
    /\ UNCHANGED <<avarageLatency, latencies, manager, poller, WithDeregister, message, event,
                   workQueue, completedEvents, failedEvents, rejectedEvents, local, lb, calls>>

\* lines 664-682: the heartbeat goroutine is started and the node annotated
\* with the document of the message
handleEvent(w) ==
    /\ pc[w] = "handleEvent"
    /\ hb' = Set(hb, w, [hb[w] EXCEPT !.at = "start"])
    /\ nodes' = annotateNode(event[w].referencedNode, serializeMessage(message[w]))
    /\ metrics' = IncGauge(metrics, "DrainingInstancesCount")
    /\ pc' = Set(pc, w, "drainNodeTarget")
    /\ UNCHANGED <<avarageLatency, latencies, manager, poller, WithDeregister, message, event,
                   workQueue, completedEvents, failedEvents, rejectedEvents, local, lb, calls>>

\* lines 684-691: the draining gauge goes down, once more when the drain
\* failed, and the deregistering gauge goes up
handleEvent_drained(err) ==
    LET failed == IF err # NoError THEN DecGauge(metrics, "DrainingInstancesCount")
                  ELSE metrics
    IN  IncGauge(DecGauge(failed, "DrainingInstancesCount"), "DeregisteringInstancesCount")

\* the drain as it would be if drainCompleted were set to the outcome of the
\* drain tool, and set again by the deregistration stage
drainNodeTarget_SetOutcome(w) ==
    /\ pc[w] = "drainNodeTarget"
    /\ \E r \in {NoError, OtherError} :
        /\ event' = Set(event, w, [event[w] EXCEPT !.drainCompleted = (r = NoError),
                                                   !.deregisterCompleted = TRUE])
        /\ local' = Set(local, w, [local[w] EXCEPT !.err = r])
        /\ calls' = Set(calls, w,
                [calls[w] EXCEPT !.SetDrainCompleted = IF r = NoError THEN @ + 1 ELSE @,
                                 !.SetDeregisterCompleted = @ + 1])
        /\ metrics' = handleEvent_drained(r)
    /\ pc' = Set(pc, w, "drainLoadbalancerTarget")
    /\ UNCHANGED <<hb, avarageLatency, latencies, nodes, manager, poller, WithDeregister, message,
                   workQueue, completedEvents, failedEvents, rejectedEvents, lb>>

\* the drain as it would be if it marked the event as completed when the
\* drain tool succeeded
drainNodeTarget_SetEventCompleted(w) ==
    /\ pc[w] = "drainNodeTarget"
    /\ \E r \in {NoError, OtherError} :
        /\ event' = Set(event, w,
                [event[w] EXCEPT !.drainCompleted = IF r = NoError THEN TRUE ELSE @,
                                 !.eventCompleted = IF r = NoError THEN TRUE ELSE @])
        /\ local' = Set(local, w, [local[w] EXCEPT !.err = r])
        /\ calls' = Set(calls, w,
                [calls[w] EXCEPT !.SetDrainCompleted = IF r = NoError THEN @ + 1 ELSE @])
        /\ metrics' = handleEvent_drained(r)
    /\ pc' = Set(pc, w, "drainLoadbalancerTarget")
    /\ UNCHANGED <<hb, avarageLatency, latencies, nodes, manager, poller, WithDeregister, message,
                   workQueue, completedEvents, failedEvents, rejectedEvents, lb>>

\* lines 346-381 and 683-688: the drain tool succeeds or fails; handleEvent
\* keeps the result in err and goes on to the deregister stage either way
drainNodeTarget(w) ==
    /\ pc[w] = "drainNodeTarget"
    /\ \E r \in {NoError, OtherError} :
        /\ event' = Set(event, w,
                [event[w] EXCEPT !.drainCompleted = IF r = NoError THEN TRUE ELSE @])
        /\ local' = Set(local, w, [local[w] EXCEPT !.err = r])
        /\ calls' = Set(calls, w,
                [calls[w] EXCEPT !.SetDrainCompleted = IF r = NoError THEN @ + 1 ELSE @])
        /\ metrics' = handleEvent_drained(r)
    /\ pc' = Set(pc, w, "drainLoadbalancerTarget")
    /\ UNCHANGED <<hb, avarageLatency, latencies, nodes, manager, poller, WithDeregister, message,
                   workQueue, completedEvents, failedEvents, rejectedEvents, lb>>

\* lines 692-706: err = mgr.drainLoadbalancerTarget(event) has returned r
\* (the assignment overwrites the err of the node drain)
Return(w, r) ==
    /\ local' = Set(local, w, [local[w] EXCEPT !.err = r])
    /\ pc' = Set(pc, w, "Process_handleEvent")

(***************************************************************************)
(* drainLoadbalancerTarget.  Pools are numbered in the order the loops     *)
(* visit them; what each call answers is chosen when the call is made.     *)
(***************************************************************************)
\* the statement that follows each loop, skipping the loops that have nothing to do
AfterSpawnInstanceWaiters(l) ==
    IF l.deregisteredTargetGroups > 0 THEN "spawnTargetWaiter" ELSE "select"
AfterDeregisterTargets(l) ==
    IF l.deregisteredLoadBalancers > 0 THEN "spawnInstanceWaiter"
    ELSE AfterSpawnInstanceWaiters(l)
\* the statement after the classic balancer loop as it would be if the waiters
\* of the classic balancers were started before the target groups are deregistered
AfterDeregisterInstances_WaitFirst(l) ==
    IF l.deregisteredLoadBalancers > 0 THEN "spawnInstanceWaiter"
    ELSE IF l.activeTargetGroups > 0 THEN "deregisterTarget" ELSE AfterDeregisterTargets(l)
AfterDeregisterInstances(l) ==
    IF l.activeTargetGroups > 0 THEN "deregisterTarget" ELSE AfterDeregisterTargets(l)
AfterDiscovery(l) ==
    IF l.activeLoadBalancers > 0 THEN "deregisterInstance" ELSE AfterDeregisterInstances(l)

\* entering statement p: the loop index restarts; the goroutine of lines 640-643
\* is started just before the select
Enter(l, p) == [l EXCEPT !.i = 0, !.closer = (p = "select")]

\* lines 398-419: WithDeregister, labelNode
labelNode(w) ==
    /\ pc[w] = "drainLoadbalancerTarget"
    /\ IF ~WithDeregister
       THEN /\ Return(w, NoError)
            /\ lb' = Set(lb, w, [lb[w] EXCEPT !.result = NoError])
       ELSE \E r \in {NoError, OtherError} :
                IF r # NoError
                THEN /\ Return(w, r)
                     /\ lb' = Set(lb, w, [lb[w] EXCEPT !.result = r])
                ELSE /\ pc' = Set(pc, w, "DescribeTargetGroups")
                     /\ UNCHANGED <<lb, local>>
    /\ UNCHANGED <<hb, avarageLatency, latencies, service, WithDeregister, message, event, workQueue, completedEvents,
                   failedEvents, rejectedEvents, calls>>

\* the discovery as it would be if errChannel had room for one error only
findInstance_OneError(w) ==
    /\ pc[w] = "DescribeTargetGroups"
    /\ \E r \in {NoError, OtherError} :
        IF r # NoError
        THEN /\ Return(w, r)
             /\ lb' = Set(lb, w, [lb[w] EXCEPT !.result = r])
        ELSE \E nLB \in 0 .. MaxPools, nTG \in 0 .. MaxPools :
                LET l == [lb[w] EXCEPT !.activeLoadBalancers = nLB,
                                       !.activeTargetGroups = nTG,
                                       !.wg = nLB + nTG,
                                       !.capacity = 1]
                IN  /\ lb' = Set(lb, w, Enter(l, AfterDiscovery(l)))
                    /\ pc' = Set(pc, w, AfterDiscovery(l))
                    /\ local' = local
    /\ UNCHANGED <<hb, avarageLatency, latencies, service, WithDeregister, message, event, workQueue, completedEvents,
                   failedEvents, rejectedEvents, calls>>

\* lines 421-493: the two listings and the two membership loops either fail, or
\* find the instance in nLB classic balancers and nTG target groups
findInstance(w) ==
    /\ pc[w] = "DescribeTargetGroups"
    /\ \E r \in {NoError, OtherError} :
        IF r # NoError
        THEN /\ Return(w, r)
             /\ lb' = Set(lb, w, [lb[w] EXCEPT !.result = r])
        ELSE \E nLB \in 0 .. MaxPools, nTG \in 0 .. MaxPools :
                LET l == [lb[w] EXCEPT !.activeLoadBalancers = nLB,
                                       !.activeTargetGroups = nTG,
                                       !.wg = nLB + nTG,
                                       !.capacity = (nLB + nTG) * 2]
                IN  /\ lb' = Set(lb, w, Enter(l, AfterDiscovery(l)))
                    /\ pc' = Set(pc, w, AfterDiscovery(l))
                    /\ local' = local
    /\ UNCHANGED <<hb, avarageLatency, latencies, service, WithDeregister, message, event, workQueue, completedEvents,
                   failedEvents, rejectedEvents, calls>>

\* one iteration of a deregister loop, whose call answered r: the error is
\* skipped, or sent on errChannel, or the pool is recorded as deregistered
Deregistered(l, r, skippable, field) ==
    IF r = NoError THEN [l EXCEPT !.i = @ + 1, ![field] = @ + 1]
    ELSE IF r \in skippable THEN [l EXCEPT !.i = @ + 1, !.skipped = @ + 1]
    ELSE [l EXCEPT !.i = @ + 1, !.failed = @ + 1, !.errChannel = Append(@, r)]

\* a send on errChannel blocks while the buffer is full
CanSend(l) == Len(l.errChannel) < l.capacity

\* lines 498-531: one iteration of the classic balancer loop
deregisterInstance(w) ==
    /\ pc[w] = "deregisterInstance"
    /\ IF event[w].eventCompleted
       THEN /\ Return(w, OtherError)
            /\ lb' = Set(lb, w, [lb[w] EXCEPT !.result = OtherError])
       ELSE \E r \in DeregisterInstanceResults :
                LET skippable == {ErrCodeAccessPointNotFoundException,
                                  ErrCodeInvalidEndPointException}
                    l == Deregistered(lb[w], r, skippable, "deregisteredLoadBalancers")
                    p == IF l.i < l.activeLoadBalancers THEN "deregisterInstance"
                         ELSE AfterDeregisterInstances(l)
                IN  /\ (r \notin skippable \cup {NoError}) => CanSend(lb[w])
                    /\ lb' = Set(lb, w, IF p = "deregisterInstance" THEN l ELSE Enter(l, p))
                    /\ pc' = Set(pc, w, p)
                    /\ local' = local
    /\ UNCHANGED <<hb, avarageLatency, latencies, service, WithDeregister, message, event, workQueue, completedEvents,
                   failedEvents, rejectedEvents, calls>>

\* lines 536-571: one iteration of the target group loop
deregisterTarget(w) ==
    /\ pc[w] = "deregisterTarget"
    /\ IF event[w].eventCompleted
       THEN /\ Return(w, OtherError)
            /\ lb' = Set(lb, w, [lb[w] EXCEPT !.result = OtherError])
       ELSE \E r \in DeregisterTargetResults :
                LET skippable == {ErrCodeTargetGroupNotFoundException,
                                  ErrCodeInvalidTargetException}
                    l == Deregistered(lb[w], r, skippable, "deregisteredTargetGroups")
                    p == IF l.i < l.activeTargetGroups THEN "deregisterTarget"
                         ELSE AfterDeregisterTargets(l)
                IN  /\ (r \notin skippable \cup {NoError}) => CanSend(lb[w])
                    /\ lb' = Set(lb, w, IF p = "deregisterTarget" THEN l ELSE Enter(l, p))
                    /\ pc' = Set(pc, w, p)
                    /\ local' = local
    /\ UNCHANGED <<hb, avarageLatency, latencies, service, WithDeregister, message, event, workQueue, completedEvents,
                   failedEvents, rejectedEvents, calls>>

\* a waiter goroutine that has just been started
Waiter(kind) == [kind |-> kind, at |-> "wait"]

\* lines 575-578 and 603: one waiter goroutine per deregistered classic balancer
spawnInstanceWaiter(w) ==
    /\ pc[w] = "spawnInstanceWaiter"
    /\ LET l == [lb[w] EXCEPT !.i = @ + 1, !.waiters = Append(@, Waiter("elb"))]
           p == IF l.i < l.deregisteredLoadBalancers THEN "spawnInstanceWaiter"
                ELSE AfterSpawnInstanceWaiters(l)
       IN  /\ lb' = Set(lb, w, IF p = "spawnInstanceWaiter" THEN l ELSE Enter(l, p))
           /\ pc' = Set(pc, w, p)
    /\ UNCHANGED <<hb, avarageLatency, latencies, service, WithDeregister, message, event, workQueue, completedEvents,
                   failedEvents, rejectedEvents, local, calls>>

\* lines 607-610 and 636-643: one waiter goroutine per deregistered target group
spawnTargetWaiter(w) ==
    /\ pc[w] = "spawnTargetWaiter"
    /\ LET l == [lb[w] EXCEPT !.i = @ + 1, !.waiters = Append(@, Waiter("tg"))]
           p == IF l.i < l.deregisteredTargetGroups THEN "spawnTargetWaiter" ELSE "select"
       IN  /\ lb' = Set(lb, w, IF p = "spawnTargetWaiter" THEN l ELSE Enter(l, p))
           /\ pc' = Set(pc, w, p)
    /\ UNCHANGED <<hb, avarageLatency, latencies, service, WithDeregister, message, event, workQueue, completedEvents,
                   failedEvents, rejectedEvents, local, calls>>


(***************************************************************************)
(* The waiter goroutines.  They assign the result of the wait call to the  *)
(* variable err of drainLoadbalancerTarget, which the closures capture:    *)
(* all waiters of a run, and the loops before them, share that variable.   *)
(***************************************************************************)
WaiterIds(w) == 1 .. Len(lb[w].waiters)

WaitResults(kind) == IF kind = "elb" THEN WaitInstanceResults ELSE WaitTargetResults

NotFound(kind) ==
    IF kind = "elb" THEN ErrCodeAccessPointNotFoundException
    ELSE ErrCodeTargetGroupNotFoundException

SetWaiter(l, k, at) == [l EXCEPT !.waiters[k].at = at]

\* lines 582 and 614: err = waitForDeregisterInstance(...) / waitForDeregisterTarget(...)
waitForDeregister(w, k) ==
    /\ k \in WaiterIds(w)
    /\ lb[w].waiters[k].at = "wait"
    /\ \E r \in WaitResults(lb[w].waiters[k].kind) :
        lb' = Set(lb, w, [SetWaiter(lb[w], k, "examine") EXCEPT
                             !.err = r,
                             !.waitFailed = @ \/ r \notin {NoError, NotFound(lb[w].waiters[k].kind)},
                             !.undrained = @ \/ r # NoError])
    /\ UNCHANGED <<hb, avarageLatency, latencies, service, WithDeregister, message, pc, event, workQueue, completedEvents,
                   failedEvents, rejectedEvents, local, calls>>

\* lines 583-589 and 595-603 (615-621 and 627-636): the waiter reads err; with
\* no error or a NotFound of its service it returns, and the deferred wg.Done runs
waiterExamine(w, k) ==
    /\ k \in WaiterIds(w)
    /\ lb[w].waiters[k].at = "examine"
    /\ lb' = Set(lb, w,
            IF lb[w].err \in {NoError, NotFound(lb[w].waiters[k].kind)}
            THEN [SetWaiter(lb[w], k, "done") EXCEPT !.wg = @ - 1]
            ELSE SetWaiter(lb[w], k, "send"))
    /\ UNCHANGED <<hb, avarageLatency, latencies, service, WithDeregister, message, pc, event, workQueue, completedEvents,
                   failedEvents, rejectedEvents, local, calls>>

\* the send as it would be without the deferred wg.Done
waiterSend_NoDone(w, k) ==
    /\ k \in WaiterIds(w)
    /\ lb[w].waiters[k].at = "send"
    /\ CanSend(lb[w])
    /\ lb' = Set(lb, w, [SetWaiter(lb[w], k, "done") EXCEPT
                            !.errChannel = Append(@, lb[w].err)])
    /\ UNCHANGED <<hb, avarageLatency, latencies, service, WithDeregister, message, pc, event,
                   workQueue, completedEvents, failedEvents, rejectedEvents, local, calls>>

\* lines 590-591 (622-623): errChannel <- err sends what err holds now, then the
\* deferred wg.Done runs
waiterSend(w, k) ==
    /\ k \in WaiterIds(w)
    /\ lb[w].waiters[k].at = "send"
    /\ CanSend(lb[w])
    /\ lb' = Set(lb, w, [SetWaiter(lb[w], k, "done") EXCEPT
                            !.errChannel = Append(@, lb[w].err),
                            !.wg = @ - 1])
    /\ UNCHANGED <<hb, avarageLatency, latencies, service, WithDeregister, message, pc, event, workQueue, completedEvents,
                   failedEvents, rejectedEvents, local, calls>>

\* lines 640-643: wg.Wait() returns when the counter is zero; close(finished)
closeFinished(w) ==
    /\ lb[w].closer
    /\ ~lb[w].finished
    /\ lb[w].wg = 0
    /\ lb' = Set(lb, w, [lb[w] EXCEPT !.finished = TRUE])
    /\ UNCHANGED <<hb, avarageLatency, latencies, service, WithDeregister, message, pc, event, workQueue, completedEvents,
                   failedEvents, rejectedEvents, local, calls>>

\* the select as it would be if the error received from errChannel were dropped
select_DropError(w) ==
    /\ pc[w] = "select"
    /\ \E c \in {"finished", "errChannel"} :
        /\ IF c = "finished" THEN lb[w].finished ELSE Len(lb[w].errChannel) > 0
        /\ LET l == IF c = "finished" THEN lb[w]
                    ELSE [lb[w] EXCEPT !.errChannel = Tail(@)]
           IN  /\ lb' = Set(lb, w, [l EXCEPT !.result = NoError])
               /\ event' = Set(event, w, [event[w] EXCEPT !.deregisterCompleted = TRUE])
               /\ calls' = Set(calls, w, [calls[w] EXCEPT !.SetDeregisterCompleted = @ + 1])
               /\ local' = Set(local, w, [local[w] EXCEPT !.err = NoError])
               /\ pc' = Set(pc, w, "Process_handleEvent")
    /\ UNCHANGED <<hb, avarageLatency, latencies, service, WithDeregister, message, workQueue, completedEvents, failedEvents,
                   rejectedEvents>>

\* the select as it would be if deregisterCompleted were never set
select_NoSetDeregisterCompleted(w) ==
    /\ pc[w] = "select"
    /\ \E c \in {"finished", "errChannel"} :
        /\ IF c = "finished" THEN lb[w].finished ELSE Len(lb[w].errChannel) > 0
        /\ LET errs == IF c = "finished" THEN NoError ELSE Head(lb[w].errChannel)
               l == IF c = "finished" THEN lb[w]
                    ELSE [lb[w] EXCEPT !.errChannel = Tail(@)]
           IN  /\ lb' = Set(lb, w, [l EXCEPT !.result = errs])
               /\ Return(w, errs)
    /\ UNCHANGED <<hb, avarageLatency, latencies, service, WithDeregister, message, event, workQueue,
                   completedEvents, failedEvents, rejectedEvents, calls>>

\* lines 645-661: the select takes a case that is ready; when both are ready
\* it takes either
select(w) ==
    /\ pc[w] = "select"
    /\ \E c \in {"finished", "errChannel"} :
        /\ IF c = "finished" THEN lb[w].finished ELSE Len(lb[w].errChannel) > 0
        /\ LET errs == IF c = "finished" THEN NoError ELSE Head(lb[w].errChannel)
               l == IF c = "finished" THEN lb[w]
                    ELSE [lb[w] EXCEPT !.errChannel = Tail(@)]
           IN  /\ lb' = Set(lb, w, [l EXCEPT !.result = errs])
               /\ event' = Set(event, w,
                      [event[w] EXCEPT !.deregisterCompleted =
                                           IF errs = NoError THEN TRUE ELSE @])
               /\ calls' = Set(calls, w,
                      [calls[w] EXCEPT !.SetDeregisterCompleted =
                                           IF errs = NoError THEN @ + 1 ELSE @])
               /\ Return(w, errs)
    /\ UNCHANGED <<hb, avarageLatency, latencies, service, WithDeregister, message, workQueue, completedEvents, failedEvents,
                   rejectedEvents>>

(***************************************************************************)
(* CompleteEvent.  The loop ranges over mgr.workQueue as it was when the   *)
(* loop started and runs outside the mutex; only the final assignment of   *)
(* newQueue is made under it.                                              *)
(***************************************************************************)
\* the statement after iteration i of the range loop
AfterIteration(lc) ==
    IF lc.i < Len(lc.range) THEN "CompleteEvent_range" ELSE "CompleteEvent_Lock"

\* time.Since(event.startTime).Seconds() as CompleteEvent can measure it; the
\* values are multiples of 2^NumWorkers, so that halving an average of them
\* NumWorkers times is exact, as it is for such values in float64
Latencies == {0, 2 ^ NumWorkers, 2 * 2 ^ NumWorkers}

\* the new value as it would be without the test avarageLatency == 0
NextAvarageLatency_NoSentinel(avg, t) == (avg + t) \div 2

\* lines 134-138: the new value of mgr.avarageLatency, from the value avg read
\* and the latency t
NextAvarageLatency(avg, t) == IF avg = 0 THEN t ELSE (avg + t) \div 2

\* lines 126-134: t is measured and mgr.avarageLatency is read, without the mutex
CompleteEvent(w) ==
    /\ pc[w] = "CompleteEvent"
    /\ \E t \in Latencies :
        local' = Set(local, w, [local[w] EXCEPT !.t = t, !.avg = avarageLatency])
    /\ pc' = Set(pc, w, "CompleteEvent_avarageLatency")
    /\ calls' = Set(calls, w, [calls[w] EXCEPT !.CompleteEvent = @ + 1])
    /\ UNCHANGED <<hb, avarageLatency, latencies, service, WithDeregister, message, event, workQueue,
                   completedEvents, failedEvents, rejectedEvents, lb>>

\* lines 135-143: mgr.avarageLatency is written, and the range loop takes the
\* slice mgr.workQueue as it is now
CompleteEvent_avarageLatency(w) ==
    /\ pc[w] = "CompleteEvent_avarageLatency"
    /\ avarageLatency' = NextAvarageLatency(local[w].avg, local[w].t)
    /\ latencies' = Append(latencies, local[w].t)
    /\ LET lc == [local[w] EXCEPT !.range = workQueue, !.i = 0, !.newQueue = << >>]
       IN  /\ local' = Set(local, w, lc)
           /\ pc' = Set(pc, w, AfterIteration(lc))
    /\ UNCHANGED <<hb, service, WithDeregister, message, event, workQueue, completedEvents,
                   failedEvents, rejectedEvents, lb, calls>>

\* lines 143-147 and 166-168: one entry e of the range
CompleteEvent_range(w) ==
    /\ pc[w] = "CompleteEvent_range"
    /\ LET e == local[w].range[local[w].i + 1]
       IN  IF DeepEqual(w, e)
           THEN /\ event' = Set(event, w, [event[w] EXCEPT !.eventCompleted = TRUE])
                /\ calls' = Set(calls, w, [calls[w] EXCEPT !.SetEventCompleted = @ + 1])
                /\ local' = local
                /\ pc' = Set(pc, w, "CompleteEvent_deleteMessage")
           ELSE LET lc == [local[w] EXCEPT !.i = @ + 1, !.newQueue = Append(@, e)]
                IN  /\ event' = event
                    /\ calls' = calls
                    /\ local' = Set(local, w, lc)
                    /\ pc' = Set(pc, w, AfterIteration(lc))
    /\ UNCHANGED <<hb, avarageLatency, latencies, service, WithDeregister, message, workQueue, completedEvents, failedEvents,
                   rejectedEvents, lb>>

\* lines 149-152
CompleteEvent_deleteMessage(w) ==
    /\ pc[w] = "CompleteEvent_deleteMessage"
    /\ calls' = Set(calls, w, [calls[w] EXCEPT !.DeleteMessage = @ + 1])
    /\ pc' = Set(pc, w, "CompleteEvent_completeLifecycleAction")
    /\ UNCHANGED <<hb, avarageLatency, latencies, service, WithDeregister, message, event, workQueue, completedEvents,
                   failedEvents, rejectedEvents, local, lb>>

\* lines 153-165
CompleteEvent_completeLifecycleAction(w) ==
    /\ pc[w] = "CompleteEvent_completeLifecycleAction"
    /\ calls' = Set(calls, w, [calls[w] EXCEPT !.Continue = @ + 1])
    /\ LET lc == [local[w] EXCEPT !.i = @ + 1]
       IN  /\ local' = Set(local, w, lc)
           /\ pc' = Set(pc, w, AfterIteration(lc))
    /\ UNCHANGED <<hb, avarageLatency, latencies, service, WithDeregister, message, event, workQueue, completedEvents,
                   failedEvents, rejectedEvents, lb>>

\* lines 170-176 under the mutex, and the return nil of Process (line 111)
CompleteEvent_Lock(w) ==
    /\ pc[w] = "CompleteEvent_Lock"
    /\ workQueue' = local[w].newQueue
    /\ completedEvents' = completedEvents + 1
    /\ local' = Set(local, w, [local[w] EXCEPT !.processErr = NoError])
    /\ pc' = Set(pc, w, "newWorker_Process")
    /\ UNCHANGED <<hb, avarageLatency, latencies, service, WithDeregister, message, event, failedEvents, rejectedEvents,
                   lb, calls>>

(***************************************************************************)
(* FailEvent.  mgr.failedEvents++ is a read and a write of a field that no *)
(* mutex guards.                                                           *)
(***************************************************************************)
\* lines 179-190
FailEvent_read(w) ==
    /\ pc[w] = "FailEvent"
    /\ local' = Set(local, w, [local[w] EXCEPT !.counter = failedEvents])
    /\ calls' = Set(calls, w, [calls[w] EXCEPT !.FailEvent = @ + 1])
    /\ pc' = Set(pc, w, "FailEvent_write")
    /\ UNCHANGED <<hb, avarageLatency, latencies, service, WithDeregister, message, event, workQueue, completedEvents,
                   failedEvents, rejectedEvents, lb>>

\* lines 190-200
FailEvent_write(w) ==
    /\ pc[w] = "FailEvent_write"
    /\ failedEvents' = local[w].counter + 1
    /\ event' = Set(event, w, [event[w] EXCEPT !.eventCompleted = TRUE])
    /\ calls' = Set(calls, w, [calls[w] EXCEPT !.SetEventCompleted = @ + 1])
    /\ pc' = Set(pc, w, "FailEvent_completeLifecycleAction")
    /\ UNCHANGED <<hb, avarageLatency, latencies, service, WithDeregister, message, workQueue, completedEvents, rejectedEvents,
                   local, lb>>

\* FailEvent as it would be without the test of abandon at line 202
FailEvent_AlwaysAbandon(w) ==
    /\ pc[w] = "FailEvent_completeLifecycleAction"
    /\ calls' = Set(calls, w, [calls[w] EXCEPT !.Abandon = @ + 1])
    /\ pc' = Set(pc, w, "FailEvent_deleteMessage")
    /\ UNCHANGED <<hb, avarageLatency, latencies, service, WithDeregister, message, event, workQueue, completedEvents,
                   failedEvents, rejectedEvents, local, lb>>

\* lines 202-208
FailEvent_completeLifecycleAction(w) ==
    /\ pc[w] = "FailEvent_completeLifecycleAction"
    /\ calls' = Set(calls, w,
            [calls[w] EXCEPT !.Abandon = IF local[w].abandon THEN @ + 1 ELSE @])
    /\ pc' = Set(pc, w, "FailEvent_deleteMessage")
    /\ UNCHANGED <<hb, avarageLatency, latencies, service, WithDeregister, message, event, workQueue, completedEvents,
                   failedEvents, rejectedEvents, local, lb>>

\* FailEvent as it would be if it removed the event from the work queue
FailEvent_deleteMessage_Dequeue(w) ==
    /\ pc[w] = "FailEvent_deleteMessage"
    /\ calls' = Set(calls, w,
            [calls[w] EXCEPT !.DeleteMessage = IF DeepEqualZeroValue(w) THEN @ ELSE @ + 1])
    /\ workQueue' = SelectSeq(workQueue, LAMBDA e : e # w)
    /\ pc' = Set(pc, w, "done")
    /\ UNCHANGED <<hb, avarageLatency, latencies, service, WithDeregister, message, event,
                   completedEvents, failedEvents, rejectedEvents, local, lb>>

\* FailEvent as it would be if it cleared the annotation of the node
FailEvent_deleteMessage_ClearAnnotation(w) ==
    /\ pc[w] = "FailEvent_deleteMessage"
    /\ calls' = Set(calls, w,
            [calls[w] EXCEPT !.DeleteMessage = IF DeepEqualZeroValue(w) THEN @ ELSE @ + 1])
    /\ nodes' = annotateNode(event[w].referencedNode, NoAnnotation)
    /\ pc' = Set(pc, w, "done")
    /\ UNCHANGED <<hb, avarageLatency, latencies, manager, poller, metrics, WithDeregister, message,
                   event, workQueue, completedEvents, failedEvents, rejectedEvents, local, lb>>

\* lines 210-220
FailEvent_deleteMessage(w) ==
    /\ pc[w] = "FailEvent_deleteMessage"
    /\ calls' = Set(calls, w,
            [calls[w] EXCEPT !.DeleteMessage = IF DeepEqualZeroValue(w) THEN @ ELSE @ + 1])
    /\ pc' = Set(pc, w, "done")
    /\ UNCHANGED <<hb, avarageLatency, latencies, service, WithDeregister, message, event, workQueue, completedEvents,
                   failedEvents, rejectedEvents, local, lb>>

(***************************************************************************)
(* sendHeartbeat, the goroutine handleEvent starts for the event.          *)
(***************************************************************************)
\* 3600: the cap of one hour on the time an event is processed, in seconds
MaxSeconds == 3600

\* lines 13-25 of the heartbeat file: interval / 2 and 3600 / recommendedInterval
\* are integer divisions; a division by zero panics
sendHeartbeat(w) ==
    /\ hb[w].at = "start"
    /\ LET recommendedInterval == event[w].heartbeatInterval \div 2
       IN  hb' = Set(hb, w,
                IF recommendedInterval = 0
                THEN [hb[w] EXCEPT !.at = "panic"]
                ELSE [hb[w] EXCEPT !.at = "sleep",
                                   !.iterationCount = 1,
                                   !.recommendedInterval = recommendedInterval,
                                   !.maxIterations = MaxSeconds \div recommendedInterval])
    /\ UNCHANGED <<avarageLatency, latencies, service, WithDeregister, message, pc, event, workQueue,
                   completedEvents, failedEvents, rejectedEvents, local, lb, calls>>

\* the loop as it would be with iterationCount > maxIterations at line 32
sendHeartbeat_Sleep_Greater(w) ==
    /\ hb[w].at = "sleep"
    /\ hb' = Set(hb, w,
            IF event[w].eventCompleted
            THEN [hb[w] EXCEPT !.at = "done", !.exit = "completed"]
            ELSE IF hb[w].iterationCount > hb[w].maxIterations
            THEN [hb[w] EXCEPT !.at = "done", !.exit = "threshold"]
            ELSE [hb[w] EXCEPT !.at = "extend"])
    /\ UNCHANGED <<avarageLatency, latencies, service, WithDeregister, message, pc, event, workQueue,
                   completedEvents, failedEvents, rejectedEvents, local, lb, calls>>

\* lines 28-37: time.Sleep returns; the loop ends if the event is completed or
\* the iterations are used up
sendHeartbeat_Sleep(w) ==
    /\ hb[w].at = "sleep"
    /\ hb' = Set(hb, w,
            IF event[w].eventCompleted
            THEN [hb[w] EXCEPT !.at = "done", !.exit = "completed"]
            ELSE IF hb[w].iterationCount >= hb[w].maxIterations
            THEN [hb[w] EXCEPT !.at = "done", !.exit = "threshold"]
            ELSE [hb[w] EXCEPT !.at = "extend"])
    /\ UNCHANGED <<avarageLatency, latencies, service, WithDeregister, message, pc, event, workQueue,
                   completedEvents, failedEvents, rejectedEvents, local, lb, calls>>

\* the loop as it would be without the return of line 42: after a failed call
\* it goes on with the next iteration
sendHeartbeat_extendLifecycleAction_NoReturn(w) ==
    /\ hb[w].at = "extend"
    /\ \E err \in {NoError, OtherError} :
        hb' = Set(hb, w,
            IF err # NoError
            THEN [hb[w] EXCEPT !.calls = @ + 1, !.at = "sleep", !.iterationCount = @ + 1,
                               !.exit = "error"]
            ELSE [hb[w] EXCEPT !.calls = @ + 1, !.at = "sleep", !.iterationCount = @ + 1])
    /\ UNCHANGED <<avarageLatency, latencies, service, WithDeregister, message, pc, event, workQueue,
                   completedEvents, failedEvents, rejectedEvents, local, lb, calls>>

\* lines 38-43 and 27: extendLifecycleAction; on an error the loop ends, else
\* the next iteration starts with iterationCount++
sendHeartbeat_extendLifecycleAction(w) ==
    /\ hb[w].at = "extend"
    /\ \E err \in {NoError, OtherError} :
        hb' = Set(hb, w,
            IF err # NoError
            THEN [hb[w] EXCEPT !.calls = @ + 1, !.at = "done", !.exit = "error"]
            ELSE [hb[w] EXCEPT !.calls = @ + 1, !.at = "sleep", !.iterationCount = @ + 1])
    /\ UNCHANGED <<avarageLatency, latencies, service, WithDeregister, message, pc, event, workQueue,
                   completedEvents, failedEvents, rejectedEvents, local, lb, calls>>

\* a panic in any goroutine ends the process
Panicked == \E w \in Workers : hb[w].at = "panic"

(***************************************************************************)
(* Test_FailHandler: a test goroutine builds an event by hand (with or     *)
(* without a referenced node) and calls FailEvent on it directly, one call *)
(* after the other.                                                        *)
(***************************************************************************)
TestEvents ==
    { [ZeroEvent EXCEPT !.RequestID = "r1", !.EC2InstanceID = "i1",
                        !.LifecycleTransition = TerminationEventName,
                        !.receiptHandle = "h1", !.heartbeatInterval = 2,
                        !.startTime = 1, !.referencedNode = node,
                        !.drainCompleted = drained]
      : node \in {"", "i1"}, drained \in BOOLEAN }

InitFailHandler ==
    /\ WithDeregister = FALSE
    /\ message = [w \in Workers |-> NoMessage]
    /\ pc = [w \in Workers |-> "Test_FailHandler"]
    /\ event \in [Workers -> TestEvents]
    /\ workQueue = << >>
    /\ completedEvents = 0
    /\ failedEvents = 0
    /\ rejectedEvents = 0
    /\ local = [w \in Workers |-> ZeroLocal]
    /\ lb = [w \in Workers |-> ZeroLB]
    /\ calls = [w \in Workers |-> ZeroCalls]
    /\ hb = [w \in Workers |-> ZeroHB]
    /\ avarageLatency = 0
    /\ latencies = << >>
    /\ nodes = [n \in Nodes |-> NoAnnotation]
    /\ metrics = ZeroMetrics
    /\ manager = ZeroManager
    /\ poller = ZeroPoller

\* mgr.FailEvent(err, event, abandon), called when no other call is running
Test_FailHandler(w) ==
    /\ pc[w] = "Test_FailHandler"
    /\ \A v \in Workers : pc[v] \in {"Test_FailHandler", "done"}
    /\ \E abandon \in BOOLEAN :
        local' = Set(local, w, [local[w] EXCEPT !.abandon = abandon])
    /\ pc' = Set(pc, w, "FailEvent")
    /\ UNCHANGED <<hb, avarageLatency, latencies, service, WithDeregister, message, event, workQueue, completedEvents,
                   failedEvents, rejectedEvents, lb, calls>>

(***************************************************************************)
(* The service: every goroutine takes its steps in any order.              *)
(***************************************************************************)
\* newWorker up to the call of Process, and RejectEvent
AcceptStep(w) ==
    \/ newWorker_readMessage(w)
    \/ newWorker_IsAlreadyExist(w)
    \/ newWorker_getHookHeartbeatInterval(w)
    \/ newWorker_getNodeByInstance(w)
    \/ RejectEvent_read(w)
    \/ RejectEvent_write(w)

\* Process: AddEvent, handleEvent up to the deregistration, CompleteEvent
ProcessStep(w) ==
    \/ AddEvent(w)
    \/ handleEvent(w)
    \/ drainNodeTarget(w)
    \/ labelNode(w)
    \/ Process_handleEvent(w)
    \/ CompleteEvent(w)
    \/ CompleteEvent_avarageLatency(w)
    \/ CompleteEvent_range(w)
    \/ CompleteEvent_deleteMessage(w)
    \/ CompleteEvent_completeLifecycleAction(w)
    \/ CompleteEvent_Lock(w)
    \/ newWorker_Process(w)

FailStep(w) ==
    \/ FailEvent_read(w)
    \/ FailEvent_write(w)
    \/ FailEvent_completeLifecycleAction(w)
    \/ FailEvent_deleteMessage(w)

\* drainLoadbalancerTarget once WithDeregister is known to be set
DeregisterStep(w) ==
    \/ findInstance(w)
    \/ deregisterInstance(w)
    \/ deregisterTarget(w)
    \/ spawnInstanceWaiter(w)
    \/ spawnTargetWaiter(w)
    \/ select(w)

\* the steps of worker w's own goroutine
WorkerStep(w) == AcceptStep(w) \/ ProcessStep(w) \/ FailStep(w) \/ DeregisterStep(w)

\* the steps of waiter k that drainLoadbalancerTarget of worker w started
WaiterStep(w, k) ==
    \/ waitForDeregister(w, k)
    \/ waiterExamine(w, k)
    \/ waiterSend(w, k)

Waiters == 1 .. 2 * MaxPools

Next ==
    \E w \in Workers :
        \/ WorkerStep(w)
        \/ \E k \in Waiters : WaiterStep(w, k)
        \/ closeFinished(w)

Spec == Init /\ [][Next]_vars

\* the service handling one message
SpecOne == InitOne /\ [][Next]_vars

\* the same under fair scheduling: a goroutine that can take a step takes one
Fairness ==
    \A w \in Workers :
        /\ WF_vars(WorkerStep(w))
        /\ WF_vars(closeFinished(w))
        /\ \A k \in Waiters : WF_vars(WaiterStep(w, k))

FairOne == SpecOne /\ Fairness

\* the service without deregistration: drainLoadbalancerTarget returns nil at
\* once, handleEvent returns nil whatever the drain did, and neither the
\* deregistration nor FailEvent is reachable
NextNoDeregister == \E w \in Workers : AcceptStep(w) \/ ProcessStep(w)

SpecNoDeregister == InitNoDeregister /\ [][NextNoDeregister]_vars

\* the steps of the heartbeat goroutine of worker w's event
HeartbeatStep(w) ==
    \/ sendHeartbeat(w)
    \/ sendHeartbeat_Sleep(w)
    \/ sendHeartbeat_extendLifecycleAction(w)

\* the service handling one message, with the heartbeat goroutine running
NextHeartbeat ==
    \E w \in Workers :
        \/ WorkerStep(w)
        \/ \E k \in Waiters : WaiterStep(w, k)
        \/ closeFinished(w)
        \/ HeartbeatStep(w)

SpecHeartbeat == InitOne /\ [][NextHeartbeat]_vars

\* the same under fair scheduling
FairHeartbeat ==
    SpecHeartbeat /\ Fairness /\ \A w \in Workers : WF_vars(HeartbeatStep(w))

\* the service handling one message whose hook has any timeout
InitAnyHook ==
    /\ \E deregister \in BOOLEAN, m \in Messages :
            /\ WithDeregister = deregister
            /\ message = [v \in Workers |-> IF v = 1 THEN m ELSE NoMessage]
    /\ pc = [w \in Workers |-> IF w = 1 THEN "newWorker" ELSE "done"]
    /\ event = [w \in Workers |-> ZeroEvent]
    /\ workQueue = << >>
    /\ completedEvents = 0
    /\ failedEvents = 0
    /\ rejectedEvents = 0
    /\ local = [w \in Workers |-> ZeroLocal]
    /\ lb = [w \in Workers |-> ZeroLB]
    /\ calls = [w \in Workers |-> ZeroCalls]
    /\ \E timeout \in AnyHookTimeouts :
            hb = [w \in Workers |-> [ZeroHB EXCEPT !.hookTimeout = timeout]]
    /\ avarageLatency = 0
    /\ latencies = << >>
    /\ nodes = [n \in Nodes |-> NoAnnotation]
    /\ metrics = ZeroMetrics
    /\ manager = ZeroManager
    /\ poller = ZeroPoller

SpecAnyHook == InitAnyHook /\ [][NextHeartbeat]_vars

\* sendHeartbeat alone: the heartbeat intervals an event can carry, from no
\* timeout at all to more than two hours
HeartbeatIntervals == {0, 1, 2, 61, 2400, 3600, 7200, 7202}

\* go sendHeartbeat(asgClient, event) for one event that is being processed
InitSendHeartbeat ==
    /\ WithDeregister = FALSE
    /\ message = [w \in Workers |-> NoMessage]
    /\ pc = [w \in Workers |-> IF w = 1 THEN "SetEventCompleted" ELSE "done"]
    /\ \E interval \in HeartbeatIntervals :
        event = [w \in Workers |->
                    IF w = 1
                    THEN [ZeroEvent EXCEPT !.RequestID = "r1", !.EC2InstanceID = "i1",
                                           !.LifecycleTransition = TerminationEventName,
                                           !.receiptHandle = "h1", !.referencedNode = "i1",
                                           !.heartbeatInterval = interval]
                    ELSE ZeroEvent]
    /\ workQueue = << >>
    /\ completedEvents = 0
    /\ failedEvents = 0
    /\ rejectedEvents = 0
    /\ local = [w \in Workers |-> ZeroLocal]
    /\ lb = [w \in Workers |-> ZeroLB]
    /\ calls = [w \in Workers |-> ZeroCalls]
    /\ hb = [w \in Workers |-> IF w = 1 THEN [ZeroHB EXCEPT !.at = "start"] ELSE ZeroHB]
    /\ avarageLatency = 0
    /\ latencies = << >>
    /\ nodes = [n \in Nodes |-> NoAnnotation]
    /\ metrics = ZeroMetrics
    /\ manager = ZeroManager
    /\ poller = ZeroPoller

\* event.SetEventCompleted(true), at any moment of the driver's run, or never
SetEventCompleted(w) ==
    /\ pc[w] = "SetEventCompleted"
    /\ event' = Set(event, w, [event[w] EXCEPT !.eventCompleted = TRUE])
    /\ calls' = Set(calls, w, [calls[w] EXCEPT !.SetEventCompleted = @ + 1])
    /\ pc' = Set(pc, w, "done")
    /\ UNCHANGED <<hb, avarageLatency, latencies, service, WithDeregister, message, workQueue,
                   completedEvents, failedEvents, rejectedEvents, local, lb>>

NextSendHeartbeat == \E w \in Workers : HeartbeatStep(w) \/ SetEventCompleted(w)

\* the driver is scheduled fairly; nothing obliges the event to complete
SpecSendHeartbeat ==
    /\ InitSendHeartbeat
    /\ [][NextSendHeartbeat]_vars
    /\ \A w \in Workers : WF_vars(HeartbeatStep(w))

(***************************************************************************)
(* An event that another goroutine completes while it is handled, as       *)
(* _completeEventAfter of the tests does: the first worker handles a       *)
(* message with deregistration, the last worker is that goroutine.         *)
(***************************************************************************)
InitCompleteEventAfter ==
    /\ WithDeregister = TRUE
    /\ message = [w \in Workers |-> IF w = 1 THEN MsgA1 ELSE NoMessage]
    /\ pc = [w \in Workers |-> IF w = 1 THEN "newWorker"
                               ELSE IF w = NumWorkers THEN "completeEventAfter"
                               ELSE "done"]
    /\ event = [w \in Workers |-> ZeroEvent]
    /\ workQueue = << >>
    /\ completedEvents = 0
    /\ failedEvents = 0
    /\ rejectedEvents = 0
    /\ local = [w \in Workers |-> ZeroLocal]
    /\ lb = [w \in Workers |-> ZeroLB]
    /\ calls = [w \in Workers |-> ZeroCalls]
    /\ hb = [w \in Workers |-> ZeroHB]
    /\ avarageLatency = 0
    /\ latencies = << >>
    /\ nodes = [n \in Nodes |-> NoAnnotation]
    /\ metrics = ZeroMetrics
    /\ manager = ZeroManager
    /\ poller = ZeroPoller

\* event.SetEventCompleted(true) on the event of the first worker, once that
\* worker has built it, at any moment
completeEventAfter(v) ==
    /\ pc[v] = "completeEventAfter"
    /\ calls[1].Process >= 1
    /\ event' = Set(event, 1, [event[1] EXCEPT !.eventCompleted = TRUE])
    /\ calls' = Set(calls, 1, [calls[1] EXCEPT !.SetEventCompleted = @ + 1])
    /\ pc' = Set(pc, v, "done")
    /\ UNCHANGED <<hb, avarageLatency, latencies, service, WithDeregister, message, workQueue,
                   completedEvents, failedEvents, rejectedEvents, local, lb>>

NextCompleteEventAfter == Next \/ \E v \in Workers : completeEventAfter(v)

SpecCompleteEventAfter == InitCompleteEventAfter /\ [][NextCompleteEventAfter]_vars

(***************************************************************************)
(* Messages that arrive one after the other: the channel loop of Start     *)
(* starts the worker of a message when the workers of the messages before  *)
(* it have returned.                                                       *)
(***************************************************************************)
\* the workers started before w have returned
Later(w) == \A v \in Workers : v < w => pc[v] = "done"

NextLater ==
    \E w \in Workers :
        \/ Later(w) /\ WorkerStep(w)
        \/ \E k \in Waiters : WaiterStep(w, k)
        \/ closeFinished(w)

\* the first message is the termination event of instance i1, the messages
\* after it are any deliveries of the queue
InitLater ==
    \E deregister \in BOOLEAN, messages \in Deliveries :
        /\ messages[1] = MsgA1
        /\ Start(deregister, messages)

SpecLater == InitLater /\ [][NextLater]_vars

(***************************************************************************)
(* Manager.Start and Manager.newPoller.  Start starts the poller, resumes  *)
(* the events the node annotations record, then takes the messages the     *)
(* poller sends on mgr.eventStream; the channel has no buffer, so a send   *)
(* and the receive that takes it are one step.  A goroutine Start starts   *)
(* is the next worker of Workers, left at the first statement of newWorker.*)
(***************************************************************************)
\* the annotations the nodes can carry when the service starts
Annotations == {NoAnnotation, BadAnnotation, serializeMessage(MsgA1), serializeMessage(MsgB)}

\* the messages the queue can hold when the service starts
QueueMessages == {MsgA2, MsgB, MsgGarbage}

\* the nodes that carry a non-empty annotation
InProgress == {n \in Nodes : ~nodes[n].empty}

\* the state when Start is called: there is a worker for every annotated node
\* and every message of the queue
InitService ==
    /\ WithDeregister = FALSE
    /\ message = [w \in Workers |-> NoMessage]
    /\ pc = [w \in Workers |-> "done"]
    /\ event = [w \in Workers |-> ZeroEvent]
    /\ workQueue = << >>
    /\ completedEvents = 0
    /\ failedEvents = 0
    /\ rejectedEvents = 0
    /\ local = [w \in Workers |-> ZeroLocal]
    /\ lb = [w \in Workers |-> ZeroLB]
    /\ calls = [w \in Workers |-> ZeroCalls]
    /\ hb = [w \in Workers |-> ZeroHB]
    /\ avarageLatency = 0
    /\ latencies = << >>
    /\ nodes \in [Nodes -> Annotations]
    /\ metrics = ZeroMetrics
    /\ manager = ZeroManager
    /\ \E queue \in SUBSET QueueMessages :
        /\ Cardinality(InProgress) + Cardinality(queue) <= NumWorkers
        /\ poller = [ZeroPoller EXCEPT !.queue = queue]

\* go mgr.newWorker(m): the next worker is started with m
Spawn(m) ==
    LET w == Len(manager.spawned) + 1
    IN  /\ message' = Set(message, w, m)
        /\ pc' = Set(pc, w, "newWorker")

\* where the message of a started worker came from: the annotation of a node,
\* or the event channel
Resumed(node) == [from |-> "resume", node |-> node]
Polled == [from |-> "eventStream", node |-> 0]

\* lines 47-68: go mgr.newPoller()
Start_newPoller ==
    /\ manager.at = "none"
    /\ manager' = [manager EXCEPT !.at = "getNodesByAnnotationKey"]
    /\ poller' = [poller EXCEPT !.at = "ReceiveMessage"]
    /\ UNCHANGED <<nodes, metrics, hb, avarageLatency, latencies, WithDeregister, message, pc, event,
                   workQueue, completedEvents, failedEvents, rejectedEvents, local, lb, calls>>

\* the statement of Start after the range loop has visited the nodes of todo
AfterResume(todo) == IF todo = {} THEN "eventStream" ELSE "resume"

\* lines 70-74: the scan returns the annotation of every node, or fails; the
\* error is logged and Start goes on with a map that has no entry
Start_getNodesByAnnotationKey ==
    /\ manager.at = "getNodesByAnnotationKey"
    /\ \E r \in {NoError, OtherError} :
        LET inProgressEvents == IF r = NoError THEN Nodes ELSE {}
        IN  manager' = [manager EXCEPT !.at = AfterResume(inProgressEvents),
                                       !.inProgressEvents = inProgressEvents,
                                       !.scanned = r]
    /\ UNCHANGED <<nodes, metrics, poller, hb, avarageLatency, latencies, WithDeregister, message, pc,
                   event, workQueue, completedEvents, failedEvents, rejectedEvents, local, lb,
                   calls>>

\* lines 76-85: one iteration of the range loop, which visits the map in any
\* order; an empty annotation is passed over; the error of deserializeMessage
\* is logged and the goroutine is started with what it returned
Start_resume ==
    /\ manager.at = "resume"
    /\ \E node \in manager.inProgressEvents :
        LET sqsMessage == nodes[node]
            todo == manager.inProgressEvents \ {node}
        IN  IF sqsMessage.empty
            THEN /\ manager' = [manager EXCEPT !.inProgressEvents = todo,
                                               !.at = AfterResume(todo)]
                 /\ UNCHANGED <<message, pc>>
            ELSE /\ Spawn(deserializeMessage(sqsMessage).message)
                 /\ manager' = [manager EXCEPT !.inProgressEvents = todo,
                                               !.at = AfterResume(todo),
                                               !.spawned = Append(@, Resumed(node))]
    /\ UNCHANGED <<nodes, metrics, poller, hb, avarageLatency, latencies, WithDeregister, event,
                   workQueue, completedEvents, failedEvents, rejectedEvents, local, lb, calls>>


\* line 89: the receive of the range loop over mgr.eventStream, as it would be
\* if the channel had room for the messages: the poller goes on at once
eventStream_Buffered ==
    /\ poller.at = "send"
    /\ poller' = [poller EXCEPT !.output = Tail(@),
                                !.at = IF Tail(poller.output) = << >>
                                       THEN "ReceiveMessage" ELSE "send"]
    /\ UNCHANGED <<nodes, metrics, manager, hb, avarageLatency, latencies, WithDeregister, message, pc,
                   event, workQueue, completedEvents, failedEvents, rejectedEvents, local, lb,
                   calls>>

\* lines 277-279 and 89: stream <- message in the poller and the receive of
\* the range loop in Start; the poller goes on to the next message of
\* output.Messages, or to the next ReceiveMessage
eventStream ==
    /\ poller.at = "send"
    /\ manager.at = "eventStream"
    /\ poller' = [poller EXCEPT !.output = Tail(@),
                                !.at = IF Tail(poller.output) = << >>
                                       THEN "ReceiveMessage" ELSE "send"]
    /\ manager' = [manager EXCEPT !.message = Head(poller.output), !.at = "newWorker"]
    /\ UNCHANGED <<nodes, metrics, hb, avarageLatency, latencies, WithDeregister, message, pc, event,
                   workQueue, completedEvents, failedEvents, rejectedEvents, local, lb, calls>>

\* line 90: go mgr.newWorker(message)
Start_newWorker ==
    /\ manager.at = "newWorker"
    /\ Spawn(manager.message)
    /\ manager' = [manager EXCEPT !.at = "eventStream", !.spawned = Append(@, Polled)]
    /\ UNCHANGED <<nodes, metrics, poller, hb, avarageLatency, latencies, WithDeregister, event,
                   workQueue, completedEvents, failedEvents, rejectedEvents, local, lb, calls>>

\* lines 256-276: ReceiveMessage with MaxNumberOfMessages 1 fails, or returns
\* no message, or returns one message of the queue
newPoller_ReceiveMessage ==
    /\ poller.at = "ReceiveMessage"
    /\ \/ poller' = [poller EXCEPT !.at = "Sleep", !.output = << >>,
                                     !.failedAt = @ \cup {Len(poller.received)}]
       \/ poller' = [poller EXCEPT !.output = << >>]
       \/ \E m \in poller.queue :
            poller' = [poller EXCEPT !.queue = @ \ {m},
                                     !.output = <<m>>,
                                     !.received = Append(@, m),
                                     !.at = "send"]
    /\ UNCHANGED <<nodes, metrics, manager, hb, avarageLatency, latencies, WithDeregister, message, pc,
                   event, workQueue, completedEvents, failedEvents, rejectedEvents, local, lb,
                   calls>>

\* the poller as it would be if it returned after an error of ReceiveMessage
newPoller_Sleep_Return ==
    /\ poller.at = "Sleep"
    /\ poller' = [poller EXCEPT !.at = "return"]
    /\ UNCHANGED <<nodes, metrics, manager, hb, avarageLatency, latencies, WithDeregister, message, pc,
                   event, workQueue, completedEvents, failedEvents, rejectedEvents, local, lb,
                   calls>>

\* lines 270-279: after the error the poller sleeps, finds no message in the
\* output and polls again
newPoller_Sleep ==
    /\ poller.at = "Sleep"
    /\ poller' = [poller EXCEPT !.at = "ReceiveMessage"]
    /\ UNCHANGED <<nodes, metrics, manager, hb, avarageLatency, latencies, WithDeregister, message, pc,
                   event, workQueue, completedEvents, failedEvents, rejectedEvents, local, lb,
                   calls>>

StartStep ==
    \/ Start_newPoller
    \/ Start_getNodesByAnnotationKey
    \/ Start_resume
    \/ Start_newWorker

PollerStep ==
    \/ newPoller_ReceiveMessage
    \/ newPoller_Sleep

NextService == StartStep \/ PollerStep \/ eventStream

SpecService == InitService /\ [][NextService]_vars

\* the scheduler runs every goroutine that can take a step
FairService ==
    /\ SpecService
    /\ WF_vars(StartStep)
    /\ WF_vars(PollerStep)
    /\ WF_vars(eventStream)

(***************************************************************************)
(* Two runs of the service.  In the first run Start has come to the event  *)
(* channel and has started one worker for a message of the queue.  The     *)
(* process stops at any moment and is started again: what it held in       *)
(* memory is lost, the annotations of the nodes stay, and a message that   *)
(* was not deleted is in the queue again.  The second run is followed      *)
(* until its workers are started.                                          *)
(***************************************************************************)
InitRestart ==
    /\ \E deregister \in BOOLEAN, m \in Messages :
            /\ WithDeregister = deregister
            /\ message = [v \in Workers |-> IF v = 1 THEN m ELSE NoMessage]
            /\ poller = [ZeroPoller EXCEPT !.at = "ReceiveMessage", !.received = <<m>>]
    /\ pc = [w \in Workers |-> IF w = 1 THEN "newWorker" ELSE "done"]
    /\ event = [w \in Workers |-> ZeroEvent]
    /\ workQueue = << >>
    /\ completedEvents = 0
    /\ failedEvents = 0
    /\ rejectedEvents = 0
    /\ local = [w \in Workers |-> ZeroLocal]
    /\ lb = [w \in Workers |-> ZeroLB]
    /\ calls = [w \in Workers |-> ZeroCalls]
    /\ hb = [w \in Workers |-> ZeroHB]
    /\ avarageLatency = 0
    /\ latencies = << >>
    /\ nodes = [n \in Nodes |-> NoAnnotation]
    /\ metrics = ZeroMetrics
    /\ manager = [ZeroManager EXCEPT !.at = "eventStream", !.spawned = <<Polled>>]

\* the service is in its second run
Restarted == manager.earlier.run

\* the process ends and Start is called in a new process
Restart ==
    /\ ~Restarted
    /\ manager' = [ZeroManager EXCEPT
                      !.earlier = [run |-> TRUE, message |-> message[1],
                                   failed |-> calls[1].FailEvent = 1 /\ pc[1] = "done"]]
    /\ poller' = [ZeroPoller EXCEPT
                     !.queue = IF calls[1].DeleteMessage = 0 THEN {message[1]} ELSE {}]
    /\ message' = [w \in Workers |-> NoMessage]
    /\ pc' = [w \in Workers |-> "done"]
    /\ event' = [w \in Workers |-> ZeroEvent]
    /\ workQueue' = << >>
    /\ completedEvents' = 0
    /\ failedEvents' = 0
    /\ rejectedEvents' = 0
    /\ local' = [w \in Workers |-> ZeroLocal]
    /\ lb' = [w \in Workers |-> ZeroLB]
    /\ calls' = [w \in Workers |-> ZeroCalls]
    /\ hb' = [w \in Workers |-> ZeroHB]
    /\ avarageLatency' = 0
    /\ latencies' = << >>
    /\ metrics' = ZeroMetrics
    /\ UNCHANGED <<nodes, WithDeregister>>

NextRestart ==
    \/ /\ ~Restarted
       /\ \E w \in Workers :
            \/ WorkerStep(w)
            \/ \E k \in Waiters : WaiterStep(w, k)
            \/ closeFinished(w)
    \/ Restart
    \/ Restarted /\ (StartStep \/ PollerStep \/ eventStream)

SpecRestart == InitRestart /\ [][NextRestart]_vars

\* Test_Process: events built by hand, as newWorker leaves them when it has
\* accepted a message, are passed to mgr.Process one after the other
ProcessEvents ==
    {[readMessage(m).ev EXCEPT !.queueURL = "url", !.heartbeatInterval = 2,
                               !.referencedNode = m.Body.EC2InstanceID,
                               !.message = m.ReceiptHandle] : m \in {MsgA1, MsgA2, MsgB}}

InitProcess ==
    /\ WithDeregister = FALSE
    /\ message = [w \in Workers |-> NoMessage]
    /\ pc = [w \in Workers |-> "Test_Process"]
    /\ event \in {events \in [Workers -> ProcessEvents] :
                    \A v, w \in Workers :
                        v # w => events[v].receiptHandle # events[w].receiptHandle}
    /\ workQueue = << >>
    /\ completedEvents = 0
    /\ failedEvents = 0
    /\ rejectedEvents = 0
    /\ local = [w \in Workers |-> ZeroLocal]
    /\ lb = [w \in Workers |-> ZeroLB]
    /\ calls = [w \in Workers |-> ZeroCalls]
    /\ hb = [w \in Workers |-> ZeroHB]
    /\ avarageLatency = 0
    /\ latencies = << >>
    /\ nodes = [n \in Nodes |-> NoAnnotation]
    /\ metrics = ZeroMetrics
    /\ manager = ZeroManager
    /\ poller = ZeroPoller

\* mgr.Process(event), called when no other call is running
Test_Process(w) ==
    /\ pc[w] = "Test_Process"
    /\ \A v \in Workers : pc[v] \in {"Test_Process", "done"}
    /\ pc' = Set(pc, w, "Process")
    /\ UNCHANGED <<hb, avarageLatency, latencies, service, WithDeregister, message, event, workQueue,
                   completedEvents, failedEvents, rejectedEvents, local, lb, calls>>

NextProcess == \E w \in Workers : Test_Process(w) \/ ProcessStep(w)

SpecProcess == InitProcess /\ [][NextProcess]_vars

\* the calls of Test_FailHandler
NextFailHandler == \E w \in Workers : Test_FailHandler(w) \/ FailStep(w)

SpecFailHandler == InitFailHandler /\ [][NextFailHandler]_vars


(***************************************************************************)
(* Properties.                                                             *)
(***************************************************************************)
\* worker w's event was accepted: it was handed to Process
Accepted(w) == calls[w].Process >= 1

\* drainLoadbalancerTarget of worker w has returned
Returned(w) == lb[w].result # "none"

\* every waiter that worker w started has finished
WaitersDone(w) == \A k \in WaiterIds(w) : lb[w].waiters[k].at = "done"

\* C1: under fair scheduling, with every external call returning, CompleteEvent
\* or FailEvent is eventually called for every event handed to Process,
\* whatever the load-balancer calls answer.
C1_EventuallyCompleteOrFail ==
    \A w \in Workers :
        Accepted(w) ~> (calls[w].CompleteEvent + calls[w].FailEvent >= 1)

\* C2: for one accepted event CompleteEvent and FailEvent are never both called
\* and neither is called twice; CompleteEvent is called only when handleEvent
\* returned nil, FailEvent only with abandon=true and only when Process
\* returned an error.
C2_CompleteXorFail ==
    \A w \in Workers :
        /\ calls[w].CompleteEvent + calls[w].FailEvent <= 1
        /\ calls[w].CompleteEvent >= 1 => Accepted(w) /\ local[w].err = NoError
        /\ calls[w].FailEvent >= 1 =>
              Accepted(w) /\ local[w].processErr # NoError /\ local[w].abandon

\* C2 witness: an accepted event whose Process returned an error has gone
\* through FailEvent and the worker has ended.
C2_Witness ==
    \E w \in Workers :
        /\ pc[w] = "done"
        /\ Accepted(w)
        /\ calls[w].FailEvent = 1
        /\ calls[w].CompleteEvent = 0

\* C3: for every event that reaches CompleteEvent, CompleteLifecycleAction with
\* CONTINUE is called exactly once, in every interleaving of the workers.
C3_ContinueExactlyOnce ==
    \A w \in Workers :
        (calls[w].CompleteEvent >= 1 /\ pc[w] \in {"newWorker_Process", "done"})
            => calls[w].Continue = 1

\* C4: for every event that reaches CompleteEvent or FailEvent, DeleteMessage is
\* called exactly once with its receipt handle, in every interleaving.
C4_DeleteExactlyOnce ==
    \A w \in Workers :
        (pc[w] = "done" /\ calls[w].CompleteEvent + calls[w].FailEvent >= 1)
            => calls[w].DeleteMessage = 1

\* C5: one call FailEvent(err, event, abandon) increments failedEvents by one,
\* sets eventCompleted, deletes the message once and reports ABANDON once when
\* abandon is true and not at all when it is false, also for an event without
\* a referenced node.
C5_FailEvent ==
    /\ failedEvents =
          Cardinality({w \in Workers : calls[w].FailEvent = 1 /\ pc[w] # "FailEvent_write"})
    /\ \A w \in Workers :
          (calls[w].FailEvent = 1 /\ pc[w] = "done") =>
              /\ event[w].eventCompleted
              /\ calls[w].DeleteMessage = 1
              /\ calls[w].Abandon = (IF local[w].abandon THEN 1 ELSE 0)
              /\ calls[w].Continue = 0

\* C5 witness: FailEvent has returned for an event without a referenced node
\* that was not abandoned and for an event that was abandoned.
C5_Witness ==
    \E w, v \in Workers :
        /\ pc[w] = "done" /\ calls[w].FailEvent = 1
        /\ ~local[w].abandon /\ event[w].referencedNode = ""
        /\ pc[v] = "done" /\ calls[v].FailEvent = 1
        /\ local[v].abandon
        /\ failedEvents = 2

\* C6: the work queue never holds two entries with the same
\* (requestId, instanceId).
C6_NoDuplicateInQueue ==
    \A i, j \in 1 .. Len(workQueue) :
        (i # j) =>
            ~(/\ event[workQueue[i]].RequestID = event[workQueue[j]].RequestID
              /\ event[workQueue[i]].EC2InstanceID = event[workQueue[j]].EC2InstanceID)

\* C7: an event whose node drain failed (drainCompleted = false), or whose
\* deregistration returned an error, never reaches CompleteEvent and CONTINUE
\* is never reported for it, with and without WithDeregister.
C7_DrainErrorPropagates ==
    \A w \in Workers :
        (calls[w].CompleteEvent >= 1 \/ calls[w].Continue >= 1) =>
            /\ event[w].drainCompleted
            /\ lb[w].result = NoError

\* C8: with WithDeregister and a successful node drain, once a deregister call on
\* an active pool has answered with a non-skippable error, the select of
\* drainLoadbalancerTarget has an error to take, handleEvent returns a non-nil
\* error, drainCompleted is true and deregisterCompleted stays false.
C8_DeregisterError ==
    \A w \in Workers :
        (WithDeregister /\ event[w].drainCompleted /\ lb[w].failed >= 1) =>
            /\ ~event[w].deregisterCompleted
            /\ lb[w].result # NoError
            /\ pc[w] = "select" =>
                  Len(lb[w].errChannel) >= 1 /\ Head(lb[w].errChannel) # NoError
            /\ Returned(w) => local[w].err # NoError
            /\ calls[w].CompleteEvent = 0

\* C8 witness: the drain succeeded, a deregister call failed with a
\* non-skippable error and handleEvent has returned that error.
C8_Witness ==
    \E w \in Workers :
        /\ WithDeregister
        /\ event[w].drainCompleted
        /\ lb[w].failed >= 1
        /\ lb[w].result = OtherError
        /\ pc[w] = "Process_handleEvent"
        /\ local[w].err = OtherError

\* C9: a skippable answer to a deregister call does not abort the stage: when a
\* pool was skipped, no deregister call failed and every waiter has ended
\* without error, drainLoadbalancerTarget eventually returns nil with
\* deregisterCompleted set.
C9_SkippableDoesNotAbort ==
    \A w \in Workers :
        (/\ pc[w] = "select"
         /\ lb[w].skipped >= 1
         /\ lb[w].failed = 0
         /\ WaitersDone(w)
         /\ ~lb[w].waitFailed
         /\ lb[w].errChannel = << >>)
            ~> (lb[w].result = NoError /\ event[w].deregisterCompleted)

\* C10: if a waiter of the run ended with a non-NotFound error,
\* drainLoadbalancerTarget returns a non-nil error and never sets
\* deregisterCompleted, whatever the order of the waiters and the select.
C10_WaiterErrorReturned ==
    \A w \in Workers :
        (lb[w].waitFailed /\ Returned(w)) =>
            lb[w].result # NoError /\ ~event[w].deregisterCompleted


\* C11: when drainLoadbalancerTarget has returned, with success or with an
\* error, no waiter goroutine it started is still running.
C11_WaitersAwaited ==
    \A w \in Workers : Returned(w) => WaitersDone(w)


\* the events in the work queue
InQueue == {workQueue[i] : i \in 1 .. Len(workQueue)}

\* the workers whose RejectEvent has incremented the counter
Rejected == {w \in Workers : calls[w].RejectEvent >= 1 /\ pc[w] # "RejectEvent_write"}

\* C12: for every message a worker rejects, rejectedEvents is incremented by
\* exactly one, the message is deleted once, CompleteLifecycleAction is never
\* called, the event is never in the work queue and no heartbeat is started.
C12_RejectEvent ==
    /\ rejectedEvents = Cardinality(Rejected)
    /\ \A w \in Workers :
          calls[w].RejectEvent >= 1 =>
              /\ calls[w].RejectEvent = 1
              /\ calls[w].Continue = 0 /\ calls[w].Abandon = 0
              /\ calls[w].Process = 0
              /\ w \notin InQueue
              /\ hb[w].at = "none"
              /\ pc[w] = "done" => calls[w].DeleteMessage = 1


\* the message of worker w parses, and the event in it is not valid
Invalid(w) ==
    /\ readMessage(message[w]).err = NoError
    /\ ~IsValid(readMessage(message[w]).ev)

\* C13: an event with another transition than the termination transition, or
\* with an empty identifier, is rejected: it never enters the work queue and
\* never reaches Process, the drain, the deregistration, CompleteEvent or
\* FailEvent.
C13_InvalidRejected ==
    \A w \in Workers :
        Invalid(w) =>
            /\ pc[w] \in {"newWorker", "RejectEvent", "RejectEvent_write", "done"}
            /\ pc[w] = "done" => calls[w].RejectEvent = 1
            /\ w \notin InQueue
            /\ calls[w].Process = 0
            /\ calls[w].CompleteEvent = 0 /\ calls[w].FailEvent = 0
            /\ calls[w].Continue = 0 /\ calls[w].Abandon = 0
            /\ ~event[w].drainCompleted /\ ~Returned(w)
            /\ hb[w].at = "none"

\* C13 witness: a message with an empty EC2InstanceId, or with another
\* transition, has been rejected and its worker has ended.
C13_Witness ==
    \E w \in Workers :
        /\ Invalid(w)
        /\ event[w].EC2InstanceID = "" \/ event[w].LifecycleTransition # TerminationEventName
        /\ event[w].RequestID # ""
        /\ pc[w] = "done"
        /\ calls[w].RejectEvent = 1
        /\ rejectedEvents = 1


\* the heartbeat driver of worker w wakes from its sleep in this step and finds
\* eventCompleted set
WakesCompleted(w) ==
    /\ hb[w].at = "sleep"
    /\ event[w].eventCompleted
    /\ hb'[w] # hb[w]

\* C14: once eventCompleted is set every background task of the event exits:
\* a heartbeat driver that wakes with the flag set sends no heartbeat and
\* terminates, and by then every load-balancer waiter of the event has
\* terminated too.
C14_BackgroundTasksExit ==
    /\ [][\A w \in Workers :
            WakesCompleted(w) => hb'[w].at = "done" /\ hb'[w].calls = hb[w].calls]_vars
    /\ [](\A w \in Workers :
            (hb[w].at = "done" /\ hb[w].exit = "completed") => WaitersDone(w))


\* C15: invariant I1: whenever eventCompleted is true, the message of the event
\* has been deleted and CONTINUE or ABANDON has been reported for it.
C15_CompletedImpliesReported ==
    \A w \in Workers :
        event[w].eventCompleted =>
            /\ calls[w].DeleteMessage >= 1
            /\ calls[w].Continue + calls[w].Abandon >= 1


Max(a, b) == IF a >= b THEN a ELSE b

\* the heartbeat driver of worker w has computed its interval
Computed(w) == hb[w].at \notin {"none", "start"}

\* C16 (as amended): with heartbeatInterval / 2 and 3600 / recommendedInterval
\* computed in integer arithmetic, the driver of an event with
\* heartbeatInterval >= 2 makes at most max(1, 3600 / (heartbeatInterval / 2))
\* iterations and at least one heartbeat call less than that, and terminates by
\* itself even if eventCompleted is never set and every call succeeds; with
\* heartbeatInterval < 2 it makes no iteration and no call, because the
\* division by heartbeatInterval / 2 panics.
C16_HeartbeatBound ==
    /\ [](\A w \in Workers :
            Computed(w) =>
                LET recommendedInterval == event[w].heartbeatInterval \div 2
                IN  IF recommendedInterval = 0
                    THEN hb[w].at = "panic" /\ hb[w].iterationCount = 0 /\ hb[w].calls = 0
                    ELSE /\ hb[w].iterationCount <= Max(1, 3600 \div recommendedInterval)
                         /\ hb[w].calls <= Max(1, 3600 \div recommendedInterval) - 1)
    /\ \A w \in Workers : (hb[w].at = "start") ~> (hb[w].at \in {"done", "panic"})

\* C16 witness: a driver whose event was never completed and whose calls all
\* succeeded has used up its iterations and returned.
C16_Witness ==
    \E w \in Workers :
        /\ hb[w].at = "done" /\ hb[w].exit = "threshold"
        /\ ~event[w].eventCompleted
        /\ hb[w].iterationCount = hb[w].maxIterations
        /\ hb[w].calls = hb[w].maxIterations - 1
        /\ hb[w].calls >= 2

\* C16 (as stated): the driver makes at most ceil(3600 / (heartbeatInterval / 2))
\* iterations, that is ceil(7200 / heartbeatInterval), and never more heartbeat
\* calls than that.
C16_HeartbeatBoundAsStated ==
    \A w \in Workers :
        (Computed(w) /\ event[w].heartbeatInterval > 0) =>
            LET bound == (7200 + event[w].heartbeatInterval - 1) \div event[w].heartbeatInterval
            IN  hb[w].iterationCount <= bound /\ hb[w].calls <= bound


\* the average the code keeps, computed from the latencies in order: 0 before
\* the first completion; a latency replaces an average of 0, and is averaged
\* with any other
RECURSIVE Smoothed(_)
Smoothed(ts) ==
    IF ts = << >> THEN 0
    ELSE LET a == Smoothed(SubSeq(ts, 1, Len(ts) - 1))
         IN  IF a = 0 THEN ts[Len(ts)] ELSE (a + ts[Len(ts)]) \div 2

\* the recurrence a0 = t1, ai = (a(i-1) + t(i+1)) / 2
RECURSIVE Recurrence(_)
Recurrence(ts) ==
    IF Len(ts) = 1 THEN ts[1]
    ELSE (Recurrence(SubSeq(ts, 1, Len(ts) - 1)) + ts[Len(ts)]) \div 2

\* C20 (as amended): after N sequential completions averageLatency is the
\* result of avg <- (avg = 0 ? t : (avg + t) / 2) applied to t1..tN from 0; it
\* equals the recurrence a0 = t1, ai = (a(i-1) + t(i+1)) / 2 when every
\* latency is positive.
C20_AverageLatency ==
    /\ avarageLatency = Smoothed(latencies)
    /\ (latencies # << >> /\ \A i \in 1 .. Len(latencies) : latencies[i] > 0)
          => avarageLatency = Recurrence(latencies)

\* C20 witness: two events with different positive latencies have completed one
\* after the other and the average lies between the two.
C20_Witness ==
    /\ \A w \in Workers : pc[w] = "done"
    /\ Len(latencies) >= 2
    /\ latencies[1] > latencies[2] /\ latencies[2] > 0
    /\ avarageLatency < latencies[1] /\ avarageLatency > latencies[2]

\* C20 (as stated): after N sequential completions averageLatency equals the
\* recurrence, for every sequence of latencies from a set that includes 0.
C20_AverageLatencyAsStated ==
    latencies # << >> => avarageLatency = Recurrence(latencies)


\* the happy path of Test_HandleEventWithDeregister, as far as the run has gone:
\* the drain succeeded, the instance is in a classic balancer and in a target
\* group, no deregister call and no wait call has returned an error
HappyPath(w) ==
    /\ WithDeregister
    /\ event[w].drainCompleted
    /\ lb[w].activeLoadBalancers >= 1
    /\ lb[w].activeTargetGroups >= 1
    /\ lb[w].skipped = 0
    /\ lb[w].failed = 0
    /\ ~lb[w].undrained

\* the waiters of the run that have not returned yet
Running(w) == {k \in WaiterIds(w) : lb[w].waiters[k].at # "done"}

\* C19: with WithDeregister, when the drain succeeds, the instance is in at
\* least one target group and one classic balancer, every deregister call
\* succeeds and every waiter reports the target drained, handleEvent returns
\* nil with drainCompleted and deregisterCompleted set, after a deregister call
\* for every active pool of both kinds; and nothing holds the run at the
\* select: the wait group counts exactly the waiters still running, so that
\* finished is closed when the last of them returns.
C19_HappyPath ==
    \A w \in Workers :
        /\ (HappyPath(w) /\ pc[w] = "select") =>
                /\ lb[w].deregisteredLoadBalancers = lb[w].activeLoadBalancers
                /\ lb[w].deregisteredTargetGroups = lb[w].activeTargetGroups
                /\ Len(lb[w].waiters) = lb[w].activeLoadBalancers + lb[w].activeTargetGroups
                /\ lb[w].wg = Cardinality(Running(w))
                /\ lb[w].errChannel = << >>
                /\ lb[w].closer
        /\ (HappyPath(w) /\ Returned(w)) =>
                /\ lb[w].result = NoError
                /\ local[w].err = NoError
                /\ local[w].processErr = NoError
                /\ event[w].drainCompleted
                /\ event[w].deregisterCompleted
                /\ lb[w].deregisteredLoadBalancers = lb[w].activeLoadBalancers
                /\ lb[w].deregisteredTargetGroups = lb[w].activeTargetGroups
                /\ WaitersDone(w)

\* C19 witness: a run on the happy path has returned, after both kinds of
\* waiter reported the instance drained.
C19_Witness ==
    \E w \in Workers :
        /\ HappyPath(w)
        /\ Returned(w)
        /\ \E j, k \in WaiterIds(w) :
              lb[w].waiters[j].kind = "elb" /\ lb[w].waiters[k].kind = "tg"
        /\ WaitersDone(w)
        /\ pc[w] = "done"


\* the workers Start has started for node n
ResumeWorkers(n) ==
    {w \in 1 .. Len(manager.spawned) : manager.spawned[w] = Resumed(n)}

\* the workers Start has started for messages of the event channel
StreamWorkers == {w \in 1 .. Len(manager.spawned) : manager.spawned[w] = Polled}

\* C17: when Start comes to the event channel, exactly one worker has been
\* started for every node whose annotation is not empty, with the message the
\* annotation deserializes to, and none for a node whose annotation is empty;
\* no message is taken from the event channel before that.
C17_CrashResume ==
    /\ manager.at \in {"eventStream", "newWorker"} =>
          \A n \in Nodes :
              IF nodes[n].empty THEN ResumeWorkers(n) = {}
              ELSE /\ Cardinality(ResumeWorkers(n)) = 1
                   /\ \A w \in ResumeWorkers(n) :
                          message[w] = deserializeMessage(nodes[n]).message
    /\ manager.at \notin {"eventStream", "newWorker"} => StreamWorkers = {}
    /\ \A v \in StreamWorkers : \A n \in Nodes : \A w \in ResumeWorkers(n) : w < v


\* the messages Start has handed to a worker after taking them from the event
\* channel, in the order the workers were started
Handed ==
    LET ws == SelectSeq([w \in 1 .. Len(manager.spawned) |-> w],
                        LAMBDA w : manager.spawned[w] = Polled)
    IN  [k \in 1 .. Len(ws) |-> message[ws[k]]]

\* the messages Start has taken from the event channel
Taken == IF manager.at = "newWorker" THEN Append(Handed, manager.message) ELSE Handed

\* C18: the messages taken from the event channel are the messages
\* ReceiveMessage returned, once each, in the order received and unchanged;
\* the poller calls ReceiveMessage again only when the consumer has taken
\* every message received so far; and every message received is eventually
\* the message of exactly one worker.
C18_PollerDelivery ==
    /\ [](/\ Len(Taken) <= Len(poller.received)
          /\ Taken = SubSeq(poller.received, 1, Len(Taken))
          /\ Len(poller.received) = Len(Taken) + Len(poller.output)
          /\ poller.at \in {"ReceiveMessage", "Sleep"} => Taken = poller.received
          /\ Len(poller.output) <= 1)
    /\ \A k \in Workers :
          (Len(poller.received) >= k) ~> (Len(Handed) >= k /\ Handed[k] = poller.received[k])

\* C18 witness: two messages of the queue have been received, sent and handed
\* to two workers, and the poller is polling again.
C18_Witness ==
    /\ Len(poller.received) = 2
    /\ poller.received[1] # poller.received[2]
    /\ Handed = poller.received
    /\ poller.at = "ReceiveMessage"
    /\ pc[1] = "newWorker" /\ pc[2] = "newWorker"


\* the flags of event w
Flags(w) ==
    <<event[w].drainCompleted, event[w].deregisterCompleted, event[w].eventCompleted>>

\* how often each flag of event w was set to true
FlagsSet(w) ==
    <<calls[w].SetDrainCompleted, calls[w].SetDeregisterCompleted, calls[w].SetEventCompleted>>

\* C21: drainCompleted, deregisterCompleted and eventCompleted never change
\* from true to false, and each is set to true at most once in the life of
\* the event (a flag is true exactly when it has been set, once).
C21_MonotonicFlags ==
    /\ [][\A w \in Workers : \A i \in 1 .. 3 : Flags(w)[i] => Flags(w)'[i]]_vars
    /\ [](\A w \in Workers : \A i \in 1 .. 3 :
              /\ FlagsSet(w)[i] <= 1
              /\ Flags(w)[i] <=> FlagsSet(w)[i] = 1)

\* C21 witness: an event whose three flags are set has been handled to the end.
C21_Witness ==
    \E w \in Workers :
        /\ pc[w] = "done"
        /\ Flags(w) = <<TRUE, TRUE, TRUE>>
        /\ FlagsSet(w) = <<1, 1, 1>>


\* CompleteEvent of worker w has returned
Completed(w) == calls[w].CompleteEvent >= 1 /\ pc[w] \in {"newWorker_Process", "done"}

\* C22: the work queue holds exactly the events that were added and whose
\* CompleteEvent has not returned: the entry of an event that is still being
\* processed is never lost to the CompleteEvent of another worker, and the
\* entry of a completed event never comes back.
C22_CompleteEventRemovesOnlyItsEntry ==
    \A w \in Workers :
        /\ (Accepted(w) /\ ~Completed(w)) => w \in InQueue
        /\ Completed(w) => w \notin InQueue


\* an error has been sent on errChannel in the run of worker w: it is in the
\* channel, or the select has received it
ErrorSent(w) ==
    \/ lb[w].errChannel # << >>
    \/ lb[w].closer /\ lb[w].result \notin {"none", NoError}

\* C23: in a run whose deregister calls sent no error, so that only waiters
\* send on the error channel: an error is sent only if the wait call of some
\* waiter returned an error other than NotFound (a waiter whose call returned
\* success or NotFound sends nothing), and once the waiters have returned an
\* error has been sent if the wait call of one of them returned such an error
\* (the waiter sends it), in every interleaving of the waiters.
C23_WaitersReportOwnResult ==
    \A w \in Workers :
        lb[w].failed = 0 =>
            /\ ErrorSent(w) => lb[w].waitFailed
            /\ (lb[w].waitFailed /\ WaitersDone(w)) => ErrorSent(w)


\* the loops of drainLoadbalancerTarget: the two deregister loops and the two
\* loops that start the waiters
Loops == {"deregisterInstance", "deregisterTarget", "spawnInstanceWaiter", "spawnTargetWaiter"}

\* worker w executes the statement it is at (an iteration of a loop ends with
\* the next index or with another statement)
Executes(w) == pc'[w] # pc[w] \/ lb'[w].i # lb[w].i

\* C24: when eventCompleted is true at the start of an iteration of the
\* deregister loops or of the loops that start the waiters, the iteration
\* makes no deregister call, starts no waiter, and drainLoadbalancerTarget
\* returns the error.
C24_CancellationPoint ==
    [][\A w \in Workers :
          (event[w].eventCompleted /\ pc[w] \in Loops /\ Executes(w)) =>
              /\ lb'[w].result = OtherError
              /\ pc'[w] = "Process_handleEvent"
              /\ lb'[w].waiters = lb[w].waiters
              /\ lb'[w].deregisteredLoadBalancers = lb[w].deregisteredLoadBalancers
              /\ lb'[w].deregisteredTargetGroups = lb[w].deregisteredTargetGroups
              /\ lb'[w].skipped = lb[w].skipped
              /\ lb'[w].failed = lb[w].failed]_vars


\* the statements of newWorker before Process, and RejectEvent
BeforeProcess ==
    {"newWorker", "IsAlreadyExist", "getHookHeartbeatInterval", "getNodeByInstance",
     "RejectEvent", "RejectEvent_write"}

\* the statements of the deregister stage: label, discovery, deregister, wait
DeregisterStage ==
    {"drainLoadbalancerTarget", "DescribeTargetGroups", "deregisterInstance",
     "deregisterTarget", "spawnInstanceWaiter", "spawnTargetWaiter", "select"}

\* the statements of handleEvent
InHandleEvent == {"handleEvent", "drainNodeTarget"} \cup DeregisterStage

\* the statements of CompleteEvent
InCompleteEvent ==
    {"CompleteEvent", "CompleteEvent_avarageLatency", "CompleteEvent_range",
     "CompleteEvent_deleteMessage", "CompleteEvent_completeLifecycleAction",
     "CompleteEvent_Lock"}

\* C25: within one event AddEvent has finished when handleEvent starts,
\* handleEvent has returned when CompleteEvent starts, the heartbeat goroutine
\* is started only after AddEvent, and the node drain has returned, with
\* success or failure, when the first step of the deregister stage is taken.
C25_StepsOrdered ==
    /\ [](\A w \in Workers :
            /\ pc[w] \in InHandleEvent \cup InCompleteEvent => Accepted(w)
            /\ pc[w] \in BeforeProcess \cup {"Process"} =>
                   ~Accepted(w) /\ hb[w].at = "none" /\ lb[w] = ZeroLB
            /\ hb[w].at # "none" => Accepted(w)
            /\ pc[w] \in {"handleEvent", "drainNodeTarget"} =>
                   lb[w] = ZeroLB /\ calls[w].CompleteEvent = 0
            /\ pc[w] \in DeregisterStage => calls[w].CompleteEvent = 0
            /\ calls[w].CompleteEvent >= 1 => Returned(w))
    /\ [][\A w \in Workers :
            pc'[w] # pc[w] =>
                /\ pc'[w] = "handleEvent" => pc[w] = "Process"
                /\ pc'[w] = "drainNodeTarget" => pc[w] = "handleEvent"
                /\ pc'[w] \in DeregisterStage =>
                       pc[w] \in {"drainNodeTarget"} \cup DeregisterStage
                /\ pc[w] = "drainNodeTarget" => pc'[w] = "drainLoadbalancerTarget"
                /\ pc'[w] = "Process_handleEvent" => pc[w] \in DeregisterStage
                /\ pc'[w] = "CompleteEvent" => pc[w] = "Process_handleEvent"]_vars

\* C25 witness: an event has gone through AddEvent, the drain, the deregister
\* stage with its waiters and CompleteEvent, its heartbeat goroutine started.
C25_Witness ==
    \E w \in Workers :
        /\ pc[w] = "done"
        /\ calls[w].CompleteEvent = 1
        /\ hb[w].at # "none"
        /\ lb[w].waiters # << >>


\* the deregister calls of the run of worker w that have returned
DeregisterCalls(w) ==
    lb[w].deregisteredLoadBalancers + lb[w].deregisteredTargetGroups
        + lb[w].skipped + lb[w].failed

\* the pools the discovery of the run of worker w found the instance in
ActivePools(w) == lb[w].activeLoadBalancers + lb[w].activeTargetGroups

\* C26: in a deregistration run no deregister call is made before the
\* discovery of target groups and classic balancers has finished, and no
\* waiter is started before every deregister call of the run has returned.
C26_PhasesOrdered ==
    /\ [](\A w \in Workers :
            /\ pc[w] \in {"drainLoadbalancerTarget", "DescribeTargetGroups"} =>
                   DeregisterCalls(w) = 0 /\ ActivePools(w) = 0 /\ lb[w].waiters = << >>
            /\ pc[w] \in {"deregisterInstance", "deregisterTarget"} =>
                   DeregisterCalls(w) < ActivePools(w) /\ lb[w].waiters = << >>
            /\ lb[w].waiters # << >> => DeregisterCalls(w) = ActivePools(w)
            /\ pc[w] \in {"spawnInstanceWaiter", "spawnTargetWaiter", "select"} =>
                   DeregisterCalls(w) = ActivePools(w))
    /\ [][\A w \in Workers :
            /\ DeregisterCalls(w)' # DeregisterCalls(w) =>
                   pc[w] \in {"deregisterInstance", "deregisterTarget"}
            /\ Len(lb'[w].waiters) # Len(lb[w].waiters) =>
                   pc[w] \in {"spawnInstanceWaiter", "spawnTargetWaiter"}]_vars

\* C26 witness: after discovery and the deregister calls, two waiters of one
\* run are in their wait calls at the same time.
C26_Witness ==
    \E w \in Workers :
        /\ pc[w] = "select"
        /\ ActivePools(w) >= 2
        /\ \E j, k \in WaiterIds(w) :
              j # k /\ lb[w].waiters[j].at = "wait" /\ lb[w].waiters[k].at = "wait"


\* the waiters of kind started in the run of worker w
WaitersOf(w, kind) == {k \in WaiterIds(w) : lb[w].waiters[k].kind = kind}

\* the waiters of the run of worker w that have returned
Ended(w) == {k \in WaiterIds(w) : lb[w].waiters[k].at = "done"}

\* C27: in a run that reaches the wait phase one waiter is started for each
\* pool whose deregister call succeeded and none for a pool that was skipped
\* or failed; each waiter signals the WaitGroup exactly once, when it returns,
\* and sends at most one error.
C27_OneWaiterPerDeregistration ==
    /\ [](\A w \in Workers :
            /\ Cardinality(WaitersOf(w, "elb")) <= lb[w].deregisteredLoadBalancers
            /\ Cardinality(WaitersOf(w, "tg")) <= lb[w].deregisteredTargetGroups
            /\ pc[w] = "select" \/ lb[w].closer =>
                  /\ Cardinality(WaitersOf(w, "elb")) = lb[w].deregisteredLoadBalancers
                  /\ Cardinality(WaitersOf(w, "tg")) = lb[w].deregisteredTargetGroups
                  /\ Len(lb[w].waiters) = ActivePools(w) - lb[w].skipped - lb[w].failed
            /\ lb[w].wg = ActivePools(w) - Cardinality(Ended(w)))
    /\ [][\A w \in Workers : \A k \in WaiterIds(w) :
            /\ lb[w].waiters[k].at = "done" => lb'[w].waiters[k].at = "done"
            /\ lb'[w].waiters[k].at # lb[w].waiters[k].at =>
                  IF lb'[w].waiters[k].at = "done"
                  THEN /\ lb'[w].wg = lb[w].wg - 1
                       /\ \/ lb'[w].errChannel = lb[w].errChannel
                          \/ lb'[w].errChannel = Append(lb[w].errChannel, lb[w].err)
                  ELSE /\ lb'[w].wg = lb[w].wg
                       /\ lb'[w].errChannel = lb[w].errChannel]_vars

\* C27 witness: of two pools one was deregistered and the other skipped or
\* failed; the one waiter of the run has sent an error and returned.
C27_Witness ==
    \E w \in Workers :
        /\ lb[w].closer
        /\ ActivePools(w) = 2
        /\ lb[w].skipped + lb[w].failed = 1
        /\ Len(lb[w].waiters) = 1
        /\ Ended(w) = {1}
        /\ lb[w].waitFailed
        /\ lb[w].wg = 1

\* the statements of the drain and of the deregistration
DrainOrDeregister == {"drainNodeTarget"} \cup DeregisterStage

\* the in-progress annotation of the node that the event of worker w references
AnnotationOf(w) == nodes[NodeOf(event[w].referencedNode)]

\* worker w returns from handleEvent without an error, before CompleteEvent
\* has deleted the message of its event
Succeeds(w) ==
    /\ pc[w] = "Process_handleEvent" /\ local[w].err = NoError
    /\ pc'[w] = "CompleteEvent" /\ calls[w].DeleteMessage = 0

\* C28: the annotation of the referenced node is set to the serialized
\* message before the drain starts, it is not empty while the event is in the
\* drain or the deregistration, and it is written to the empty string only by
\* a handleEvent that succeeds, before CompleteEvent deletes the message.
C28_AnnotationProtocol ==
    [][/\ \A w \in Workers :
            /\ pc[w] = "handleEvent" /\ pc'[w] \in DrainOrDeregister
                    => AnnotationOf(w)' = serializeMessage(message[w])
            /\ pc'[w] \in DrainOrDeregister => ~AnnotationOf(w)'.empty
       /\ \A n \in Nodes :
            ~nodes[n].empty /\ nodes'[n].empty
                => \E w \in Workers : /\ NodeOf(event[w].referencedNode) = n
                                      /\ Succeeds(w)]_vars

\* the statements of FailEvent and of RejectEvent
InFailOrReject ==
    {"FailEvent", "FailEvent_write", "FailEvent_completeLifecycleAction",
     "FailEvent_deleteMessage", "RejectEvent", "RejectEvent_write"}

\* the workers whose event FailEvent was called for
Failed == {w \in Workers : calls[w].FailEvent >= 1}

\* worker v handles a message of the request and instance of a failed event
\* whose FailEvent has returned
DuplicateOfFailed(v) ==
    \E w \in Failed :
        /\ w # v /\ pc[w] = "done"
        /\ event[w].RequestID = event[v].RequestID
        /\ event[w].EC2InstanceID = event[v].EC2InstanceID

\* C29: no step of FailEvent or of RejectEvent changes the work queue; the
\* entry of a failed event is in the queue during FailEvent and after it has
\* returned; and the duplicate check of a later message with the request and
\* instance of a failed event sends it to RejectEvent.
C29_FailAndRejectKeepQueue ==
    [][/\ \A w \in Workers :
            pc[w] \in InFailOrReject /\ pc'[w] # pc[w] => workQueue' = workQueue
       /\ \A w \in Workers : calls'[w].FailEvent >= 1 => w \in InQueue'
       /\ \A v \in Workers :
            pc[v] = "IsAlreadyExist" /\ pc'[v] # pc[v] /\ DuplicateOfFailed(v)
                => pc'[v] = "RejectEvent"]_vars

\* a message was rejected as the duplicate of an event that failed before,
\* and the entry of the failed event is still in the queue
C29_Witness ==
    \E v \in Workers :
        /\ DuplicateOfFailed(v)
        /\ calls[v].RejectEvent = 1 /\ pc[v] = "done"
        /\ \E w \in Failed : w \in InQueue /\ event[w].RequestID = event[v].RequestID

\* everything but the poller's own position
BesidesPollerAt == <<nodes, metrics, manager, hb, avarageLatency, latencies, WithDeregister, message,
                     pc, event,
                     workQueue, completedEvents, failedEvents, rejectedEvents, local, lb,
                     calls, poller.queue, poller.output, poller.received>>

\* C30: an error of ReceiveMessage sends nothing on the channel and changes
\* neither the queue, the workers, the work queue nor a counter; the poller
\* sleeps and calls ReceiveMessage again; and a message that ReceiveMessage
\* returns after an error is handed to a worker.
C30_PollerSurvivesError ==
    /\ [][poller.at = "ReceiveMessage" /\ poller'.at = "Sleep"
            => poller.output = << >> /\ UNCHANGED BesidesPollerAt]_vars
    /\ [][poller.at = "Sleep" /\ poller' # poller
            => poller'.at = "ReceiveMessage" /\ UNCHANGED BesidesPollerAt]_vars
    /\ (poller.at = "Sleep") ~> (poller.at = "ReceiveMessage")
    /\ \A k \in Workers :
          (k - 1 \in poller.failedAt /\ Len(poller.received) >= k)
              ~> (Len(Handed) >= k /\ Handed[k] = poller.received[k])

\* C30 witness: ReceiveMessage failed before any message was received, and a
\* message it returned afterwards is the message of a worker.
C30_Witness ==
    /\ 0 \in poller.failedAt
    /\ Len(poller.received) >= 1
    /\ Len(Handed) >= 1 /\ Handed[1] = poller.received[1]

\* everything but the heartbeat goroutines
BesidesHeartbeat ==
    <<avarageLatency, latencies, nodes, manager, poller, metrics, WithDeregister, message, pc,
      event, workQueue, completedEvents, failedEvents, rejectedEvents, local, lb, calls>>

\* the heartbeat call of worker w's event fails in this step
HeartbeatFails(w) == hb[w].at = "extend" /\ hb'[w].exit = "error"

\* C31: a heartbeat call that fails ends the driver, which takes no further
\* step and makes no further call, and changes nothing but the driver; the
\* worker goes on whatever the driver did: it can take a step unless it has
\* returned or waits in the select, and when it has returned the event was
\* completed if Process returned no error and failed if it returned one.
C31_HeartbeatErrorIsSilent ==
    /\ [][\A w \in Workers :
            /\ HeartbeatFails(w) => hb'[w].at = "done" /\ UNCHANGED BesidesHeartbeat
            /\ hb[w].exit = "error" => hb'[w] = hb[w]]_vars
    /\ [](\A w \in Workers :
            hb[w].exit = "error" =>
                /\ hb[w].at = "done"
                /\ pc[w] \notin {"done", "select"} => ENABLED WorkerStep(w)
                /\ pc[w] = "done" =>
                    /\ calls[w].CompleteEvent = (IF local[w].processErr = NoError THEN 1 ELSE 0)
                    /\ calls[w].FailEvent = (IF local[w].processErr = NoError THEN 0 ELSE 1))

\* C31 witness: the heartbeat call of an event failed, and the event went
\* through the deregistration and was completed.
C31_Witness ==
    \E w \in Workers :
        /\ hb[w].exit = "error" /\ hb[w].calls = 1
        /\ event[w].deregisterCompleted
        /\ calls[w].CompleteEvent = 1 /\ pc[w] = "done"

\* the heartbeat driver of worker w's event was started
DriverStarted(w) == hb[w].at # "none"

\* C32: invariant I5: when the heartbeat driver of an event that a worker
\* accepted is started, the heartbeatInterval of the event is not zero,
\* whatever timeout the scaling group reports for the hook.
C32_HeartbeatIntervalNonZero ==
    \A w \in Workers : DriverStarted(w) => event[w].heartbeatInterval # 0

\* C38: the division 3600 / (heartbeatInterval / 2) of the driver never
\* divides by zero: heartbeatInterval / 2 is at least 1 for every event whose
\* driver was started, and no driver panics.
C38_NoDivisionByZero ==
    \A w \in Workers :
        DriverStarted(w) =>
            /\ event[w].heartbeatInterval \div 2 >= 1
            /\ hb[w].at # "panic"

\* handleEvent has been called for the event of worker w and has returned
HandleEventReturned(w) ==
    calls[w].Process = 1 /\ pc[w] \notin InHandleEvent \cup {"Process_handleEvent"}

\* C33: neither gauge is ever negative, and when handleEvent has returned
\* both gauges have the value they had before the call.
C33_GaugesBalanced ==
    /\ metrics.DrainingInstancesCount >= 0
    /\ metrics.DeregisteringInstancesCount >= 0
    /\ \A w \in Workers : HandleEventReturned(w) => metrics = ZeroMetrics

\* the errors that the select of worker w's run has taken from errChannel
Received(w) ==
    IF lb[w].closer /\ pc[w] # "select" /\ lb[w].result \notin {"none", NoError} THEN 1 ELSE 0

\* worker w's run can send on errChannel now: a deregister loop has a pool
\* left whose call can fail, or a waiter is at its send statement
AtSend(w) ==
    \/ pc[w] \in {"deregisterInstance", "deregisterTarget"}
    \/ \E k \in WaiterIds(w) : lb[w].waiters[k].at = "send"

\* C34: the errors sent on errChannel in one run, those still in the buffer
\* and the one the select took, are never more than the active pools, which
\* is half the capacity of the channel; so the buffer has room whenever a
\* deregister loop or a waiter can send, also after the select has returned.
C34_ErrorChannelNeverFull ==
    \A w \in Workers :
        /\ lb[w].capacity = 2 * ActivePools(w)
        /\ Len(lb[w].errChannel) + Received(w) <= ActivePools(w)
        /\ AtSend(w) => CanSend(lb[w])

\* C34 witness: the select returned on a first error, and a waiter sent a
\* second error afterwards, which stays in the buffer.
C34_Witness ==
    \E w \in Workers :
        /\ Received(w) = 1 /\ pc[w] = "done"
        /\ Len(lb[w].errChannel) = 1
        /\ \A k \in WaiterIds(w) : lb[w].waiters[k].at = "done"
        /\ WaiterIds(w) # {}

\* C35: for an event that goes through Process, eventCompleted is false in
\* every statement of handleEvent; the flag is set only by the range loop of
\* CompleteEvent and by FailEvent, for the event of the worker that runs them;
\* and no deregister loop returns because it found the flag set.
C35_NotCompletedInHandleEvent ==
    /\ [](\A w \in Workers :
            pc[w] \in InHandleEvent \cup {"Process_handleEvent"} => ~event[w].eventCompleted)
    /\ [][\A w \in Workers :
            /\ ~event[w].eventCompleted /\ event'[w].eventCompleted
                    => pc[w] \in {"CompleteEvent_range", "FailEvent_write"}
            /\ pc[w] \in {"deregisterInstance", "deregisterTarget"} /\ pc'[w] # pc[w]
                    => ~event[w].eventCompleted]_vars

\* C35 witness: an event went through both deregister loops and was then
\* completed by CompleteEvent.
C35_Witness ==
    \E w \in Workers :
        /\ lb[w].deregisteredLoadBalancers >= 1 /\ lb[w].deregisteredTargetGroups >= 1
        /\ calls[w].CompleteEvent = 1 /\ event[w].eventCompleted

\* FailEvent has returned for the event of worker w, with the message
\* deleted and ABANDON reported
Abandoned(w) ==
    /\ calls[w].FailEvent = 1 /\ pc[w] = "done"
    /\ calls[w].DeleteMessage = 1 /\ calls[w].Abandon = 1

\* the workers that the second run has started from the annotation of the
\* node of the message m
ResumedFor(m) == ResumeWorkers(NodeOf(m.Body.EC2InstanceID))

Started == {w \in Workers : message[w] # NoMessage}

\* C37: when every worker has returned, the three counters add up to the
\* number of messages that were handed to workers.
C37_CountersAddUp ==
    (\A w \in Workers : pc[w] = "done")
        => completedEvents + failedEvents + rejectedEvents = Cardinality(Started)
====
